---- MODULE Spec2Model ----
(***************************************************************************)
(* A model of the Electron/React Ollama chat client:                       *)
(*   - OllamaApi (streamChat / streamGenerate / pullModel line decoders    *)
(*     and the per-category AbortController handles),                      *)
(*   - the Dexie store (conversations, messages),                          *)
(*   - ChatWindow.handleSendMessage / handleEditMessage,                   *)
(*   - App.handleSelectConversation / handleNewConversation /              *)
(*     handleDeleteConversation.                                           *)
(* Every await of a handler is a step boundary: the code between two       *)
(* awaits runs to completion (JavaScript run-to-completion) and is one     *)
(* action.                                                                 *)
(***************************************************************************)
EXTENDS Integers, Sequences, FiniteSets, TLC

\* ------------------------------------------------------------------------
\* Bounds of the model
\* ------------------------------------------------------------------------
MaxBody == 4        \* characters in a response body (decoder specification)
MaxSends == 2       \* calls of handleSendMessage in one run
MaxChunks == 2      \* content chunks one chat stream delivers
MaxClock == 1       \* latest value of the millisecond clock
MaxEdits == 1       \* calls of handleEditMessage in one run
MaxDeletes == 1     \* calls of handleDeleteConversation in one run
MaxGestures == 3    \* user gestures (send, edit, select, new chat, delete)
MaxStored == 3      \* messages of the conversation stored before an edit
MaxStoredConvs == 2 \* conversations in the store when the application starts
ProbeTick == 1000   \* milliseconds between two looks at the probe's clock
MaxTitleChars == 11 \* characters of the message a title is generated from
MaxOtherCalls == 2  \* calls of streamGenerate, and of pullModel

\* AbortSignal.timeout(3000) of checkConnection
ProbeTimeoutMs == 3000

\* ------------------------------------------------------------------------
\* Decoder state (one streaming call of OllamaApi)
\* ------------------------------------------------------------------------
VARIABLES
  dOp,        \* which streaming operation runs: "chat", "generate", "pull"
  dBody,      \* the whole response body (kept to state the properties)
  dSplit,     \* the transport chunks the body arrives in (kept likewise)
  dChunks,    \* transport chunks reader.read() has still to deliver
  dBuffer,    \* the local variable buffer
  dYielded,   \* the objects yielded to the consumer so far, in order
  dStatus,    \* "idle" | "reading" | "yielded" | "ended" | "thrown" | "returned"
  dLines,     \* the lines the for loop has still to visit, at a yield
  dAbort      \* whether controller.abort() has run, and what was yielded by then

decVars == <<dOp, dBody, dSplit, dChunks, dBuffer, dYielded, dStatus, dLines, dAbort>>

\* ------------------------------------------------------------------------
\* Application state: store, App, ChatWindow, OllamaApi, handlers
\* ------------------------------------------------------------------------
NULL == 0

VARIABLES
  clock,                      \* the millisecond clock new Date() reads
  conversationsTbl,           \* db.conversations: ids of the stored rows
  updatedAt,                  \* db.conversations: updatedAt of each stored row
  messagesTbl,                \* db.messages: id -> row
  nextConvId, nextMsgId,      \* the ++id auto-increment keys
  selectedConversation,       \* App state (id of the object, or NULL)
  conversations,              \* App state: the ids the sidebar lists
  convLoad,                   \* a loadConversations() query is pending
  messages,                   \* ChatWindow state of the mounted instance
  isLoading,
  error,
  currentAssistantMessageId,
  msgLoad,                    \* the mount effect's loadMessages() is pending
  currentChatController,      \* OllamaApi: the call whose controller is registered
  chats,                      \* the calls of OllamaApi.streamChat
  sends,                      \* the calls of handleSendMessage
  edit,                       \* the call of handleEditMessage in progress
  del,                        \* the call of handleDeleteConversation in progress
  tx,                         \* working copy of its Dexie transaction
  gestures,                   \* user gestures so far (send, edit, select, ...)
  convModel,                  \* db.conversations: model of each stored row
  title,                      \* db.conversations: title of each stored row
  listedModel,                \* App state conversations: model of each listed row
  selectedConvModel,          \* App state: selectedConversation?.model, or ""
  currentGlobalModel,         \* App state
  availableModels,            \* App state
  ollamaConnected,            \* App state
  connectionStatusMessage,    \* App state
  modelStatusMessage,         \* App state
  startup,                    \* the call of checkConnectionAndFetchData
  hOp, hStatus, hBody,        \* a request answered with a non-2xx status
  hPc,                        \* where the operation handling it stands
  hErrorData,                 \* its errorBody / errorData
  hThrown,                    \* the value it has thrown
  hYielded,                   \* what its generator has yielded
  currentController,          \* OllamaApi: currentGenerateController and
                              \* currentPullController, by category
  requests                    \* the calls of streamGenerate and of pullModel

storeVars == <<conversationsTbl, updatedAt, title, messagesTbl, nextConvId, nextMsgId>>
appVars == <<selectedConversation, conversations, convLoad>>
winVars == <<messages, isLoading, error, currentAssistantMessageId, msgLoad>>
apiVars == <<currentChatController, chats>>
modelVars == <<convModel, listedModel, selectedConvModel, currentGlobalModel>>
mainVars == <<clock, storeVars, appVars, winVars, apiVars, sends, edit, del, tx,
              gestures, modelVars>>
startVars == <<availableModels, ollamaConnected, connectionStatusMessage,
               modelStatusMessage, startup>>
httpVars == <<hOp, hStatus, hBody, hPc, hErrorData, hThrown, hYielded>>
handleVars == <<currentController, requests>>
netVars == <<startVars, httpVars, handleVars>>
vars == <<mainVars, decVars, netVars>>

\* ------------------------------------------------------------------------
\* Decoder: characters, String.split, String.trim, JSON.parse
\* ------------------------------------------------------------------------
\* A body is a sequence of characters.  "1" is a digit (one or more digits
\* form a JSON number), "S" abbreviates the text {"status":"success"},
\* "E" the text {"error":"pull failed"},
\* "x" is a character no JSON text contains, " " is white space and "\n"
\* the line separator.
NL == "\n"
Alphabet == {"1", "S", "E", "x", " ", NL}
WhiteSpace == {" "}

RECURSIVE SplitNL(_)
\* String.prototype.split('\n'): always at least one segment.
SplitNL(s) ==
  IF s = <<>> THEN << <<>> >>
  ELSE LET r == SplitNL(Tail(s)) IN
       IF Head(s) = NL THEN << <<>> >> \o r
       ELSE << <<Head(s)>> \o Head(r) >> \o Tail(r)

RECURSIVE TrimLeft(_)
TrimLeft(s) ==
  IF s # <<>> /\ Head(s) \in WhiteSpace THEN TrimLeft(Tail(s)) ELSE s

RECURSIVE TrimRight(_)
TrimRight(s) ==
  IF s # <<>> /\ s[Len(s)] \in WhiteSpace
  THEN TrimRight(SubSeq(s, 1, Len(s) - 1)) ELSE s

\* String.prototype.trim
Trim(s) == TrimRight(TrimLeft(s))

RECURSIVE SplitSpace(_)
\* String.prototype.split(' '): a segment per space plus one, segments
\* between adjacent spaces being empty.
SplitSpace(s) ==
  IF s = <<>> THEN << <<>> >>
  ELSE LET r == SplitSpace(Tail(s)) IN
       IF Head(s) = " " THEN << <<>> >> \o r
       ELSE << <<Head(s)>> \o Head(r) >> \o Tail(r)

RECURSIVE JoinSpace(_)
\* Array.prototype.join(' ')
JoinSpace(words) ==
  IF words = <<>> THEN <<>>
  ELSE IF Len(words) = 1 THEN words[1]
  ELSE words[1] \o <<" ">> \o JoinSpace(Tail(words))

\* words.slice(0, 5)
TitleWords == 5
Slice5(words) == SubSeq(words, 1, IF Len(words) < TitleWords THEN Len(words) ELSE TitleWords)

\* generateTitle: words.slice(0, 5).join(' ') + (words.length > 5 ? '...' : '');
\* the three dots are written as one character "..."
Ellipsis == "..."
GenerateTitleNoEllipsis(firstMessageContent) ==
  JoinSpace(Slice5(SplitSpace(firstMessageContent)))
GenerateTitle(firstMessageContent) ==
  LET words == SplitSpace(firstMessageContent) IN
  JoinSpace(Slice5(words)) \o (IF Len(words) > TitleWords THEN <<Ellipsis>> ELSE <<>>)

\* title: 'New Conversation...' of db.conversations.add
PlaceholderTitle == <<"New Conversation", Ellipsis>>

\* The value JSON.parse returns, or ok = FALSE when it throws SyntaxError.
\* JSON.parse skips leading and trailing white space itself; a number is
\* returned as its digits, the object {"status":"success"} as a status.
NoValue == [text |-> <<>>, status |-> "", error |-> ""]
JSONParse(s) ==
  LET t == TrimRight(TrimLeft(s)) IN
  IF t = <<"S">>
  THEN [ok |-> TRUE, value |-> [text |-> t, status |-> "success", error |-> ""]]
  ELSE IF t = <<"E">>
  THEN [ok |-> TRUE, value |-> [text |-> t, status |-> "", error |-> "pull failed"]]
  ELSE IF t # <<>> /\ \A i \in 1..Len(t) : t[i] = "1"
  THEN [ok |-> TRUE, value |-> [text |-> t, status |-> "", error |-> ""]]
  ELSE [ok |-> FALSE, value |-> NoValue]

\* The status object pullModel yields for a line that does not parse.
ParseErrorStatus == [text |-> <<>>, status |-> "error parsing line", error |-> "SyntaxError"]

\* pullModel: statusUpdate.status === 'success' || statusUpdate.error
\* (IsTerminalStatusSuccessOnly is the test without its error half.)
IsTerminalStatusSuccessOnly(v) == v.status = "success"
IsTerminalStatus(v) == v.status = "success" \/ v.error # ""

StreamOps == {"chat", "generate", "pull"}

\* ------------------------------------------------------------------------
\* Decoder: the read loops of streamChat, streamGenerate and pullModel
\* ------------------------------------------------------------------------
\* A decoder that forgets the partial line between two reads.
CarryOverDropped(lines) == <<>>
\* buffer = lines.pop() || ''
CarryOver(lines) == lines[Len(lines)]

\* the elements left in lines after lines.pop()
CompleteLines(lines) == SubSeq(lines, 1, Len(lines) - 1)

RECURSIVE ProcessLines(_, _, _)

\* catch (e) of the line loop, entered when JSON.parse(line) throws:
\* streamChat and streamGenerate throw a new Error, pullModel yields an
\* error status and goes on with the next line.  (LineParseErrorSkipped is
\* a decoder that skips the line silently in all three operations.)
LineParseErrorSkipped(op, rest, ys) == ProcessLines(op, rest, ys)
LineParseError(op, rest, ys) ==
  IF op = "pull"
  THEN ProcessLines(op, rest, Append(ys, ParseErrorStatus))
  ELSE [yielded |-> ys, status |-> "thrown"]

\* for (const line of lines) { if (line.trim()) { ... yield JSON.parse(line) ... } }
ProcessLines(op, lines, ys) ==
  IF lines = <<>> THEN [yielded |-> ys, status |-> "reading"]
  ELSE LET line == Head(lines)
           p == JSONParse(line)
       IN IF Trim(line) = <<>> THEN ProcessLines(op, Tail(lines), ys)
          ELSE IF ~p.ok THEN LineParseError(op, Tail(lines), ys)
          ELSE IF op = "pull" /\ IsTerminalStatus(p.value)
               THEN [yielded |-> Append(ys, p.value), status |-> "returned"]
               ELSE ProcessLines(op, Tail(lines), Append(ys, p.value))

\* if (done) { if (buffer.trim()) { yield JSON.parse(buffer.trim()) ... } break; }
\* A final text that does not parse throws in streamChat and streamGenerate
\* and is only logged in pullModel.  (FlushDropped is a decoder that
\* ignores what is left in the buffer when the body ends.)
FlushDropped(op, buffer, ys) == [yielded |-> ys, status |-> "ended"]
Flush(op, buffer, ys) ==
  LET p == JSONParse(Trim(buffer)) IN
  IF Trim(buffer) = <<>> THEN [yielded |-> ys, status |-> "ended"]
  ELSE IF p.ok THEN [yielded |-> Append(ys, p.value), status |-> "ended"]
  ELSE IF op = "pull" THEN [yielded |-> ys, status |-> "ended"]
  ELSE [yielded |-> ys, status |-> "thrown"]

Bodies == UNION {[1..n -> Alphabet] : n \in 0..MaxBody}

RECURSIVE SplitsOf(_)
\* Every way of cutting a body into non-empty transport chunks.
SplitsOf(s) ==
  IF s = <<>> THEN {<<>>}
  ELSE UNION { { <<SubSeq(s, 1, k)>> \o rest :
                   rest \in SplitsOf(SubSeq(s, k + 1, Len(s))) } :
               k \in 1..Len(s) }

\* the signal of the call's AbortController has not been aborted
NotAborted == [signalled |-> FALSE, yielded |-> 0]

DecIdle ==
  /\ dOp = "none" /\ dBody = <<>> /\ dSplit = <<>> /\ dChunks = <<>>
  /\ dBuffer = <<>> /\ dYielded = <<>> /\ dStatus = "idle"
  /\ dLines = <<>> /\ dAbort = NotAborted

DecInit ==
  /\ dOp \in StreamOps
  /\ dBody \in Bodies
  /\ dSplit \in SplitsOf(dBody)
  /\ dChunks = dSplit
  /\ dBuffer = <<>> /\ dYielded = <<>> /\ dStatus = "reading"
  /\ dLines = <<>> /\ dAbort = NotAborted

\* reader.read() resolves with { done: false, value }
ReadChunk(op) ==
  /\ dOp = op /\ dStatus = "reading" /\ dChunks # <<>>
  /\ LET text == dBuffer \o Head(dChunks)
         lines == SplitNL(text)
         r == ProcessLines(op, CompleteLines(lines), dYielded)
     IN /\ dBuffer' = CarryOver(lines)
        /\ dYielded' = r.yielded
        /\ dStatus' = r.status
  /\ dChunks' = Tail(dChunks)
  /\ UNCHANGED <<dOp, dBody, dSplit, dLines, dAbort, mainVars, netVars>>

\* reader.read() resolves with { done: true }
ReadDone(op) ==
  /\ dOp = op /\ dStatus = "reading" /\ dChunks = <<>>
  /\ LET r == Flush(op, dBuffer, dYielded)
     IN /\ dYielded' = r.yielded
        /\ dStatus' = r.status
  /\ UNCHANGED <<dOp, dBody, dSplit, dChunks, dBuffer, dLines, dAbort,
                 mainVars, netVars>>

StreamChatRead == ReadChunk("chat")
StreamChatDone == ReadDone("chat")
StreamGenerateRead == ReadChunk("generate")
StreamGenerateDone == ReadDone("generate")
PullModelRead == ReadChunk("pull")
PullModelDone == ReadDone("pull")

DecNext ==
  \/ StreamChatRead \/ StreamChatDone
  \/ StreamGenerateRead \/ StreamGenerateDone
  \/ PullModelRead \/ PullModelDone


\* ------------------------------------------------------------------------
\* Properties of the decoders (specification SpecDecode)
\* ------------------------------------------------------------------------
Finished == {"ended", "thrown", "returned"}

\* The lines of the body: its segments between newlines that hold more
\* than white space.  The last segment is the unterminated final line.
Segments == SplitNL(dBody)
IsBlank(l) == Trim(l) = <<>>
NonBlankIdx == {i \in 1..Len(Segments) : ~IsBlank(Segments[i])}
BadIdx == {i \in NonBlankIdx : ~JSONParse(Segments[i]).ok}
FirstBad == IF BadIdx = {} THEN Len(Segments) + 1
            ELSE CHOOSE i \in BadIdx : \A j \in BadIdx : i <= j

RECURSIVE ObjectsOf(_, _)
\* The decoded objects of the non-blank segments 1..n, in line order.
ObjectsOf(segs, n) ==
  IF n = 0 THEN <<>>
  ELSE IF IsBlank(segs[n]) THEN ObjectsOf(segs, n - 1)
  ELSE Append(ObjectsOf(segs, n - 1), JSONParse(segs[n]).value)

IsPrefix(a, b) == Len(a) <= Len(b) /\ SubSeq(b, 1, Len(a)) = a

\* C8: whatever the split of the body into transport chunks, streamChat and
\* streamGenerate yield the objects of the non-blank lines, one per line and
\* in line order (up to the first line that does not parse): while reading
\* a prefix of that sequence, and all of it once the call has finished.
C8_ChunkingIndependent ==
  dOp \in {"chat", "generate"} =>
    LET expected == ObjectsOf(Segments, FirstBad - 1) IN
    /\ dStatus = "reading" => IsPrefix(dYielded, expected)
    /\ dStatus \in Finished => dYielded = expected

NewlinesIn(c) == Cardinality({i \in 1..Len(c) : c[i] = NL})

\* C8 witness: a finished streamChat whose body of two lines arrived split
\* inside a line and with one chunk holding text of several lines.
C8_Witness ==
  /\ dOp = "chat" /\ dStatus = "ended" /\ Len(dYielded) = 2
  /\ \E k \in 1..Len(dSplit) : NewlinesIn(dSplit[k]) = 0
  /\ \E k \in 1..Len(dSplit) : NewlinesIn(dSplit[k]) >= 2

\* The body ends with a non-blank line without a newline, and every line
\* of it parses.
TrailingLine ==
  /\ ~IsBlank(Segments[Len(Segments)])
  /\ BadIdx = {}

\* C9: a non-blank final line without a terminating newline is yielded
\* exactly once, after all earlier lines, and only when the reader reports
\* done: before that the yielded objects are those of earlier lines only.
C9_TrailingLineFlushed ==
  (dOp \in {"chat", "generate"} /\ TrailingLine) =>
    LET n == Len(Segments)
        earlier == ObjectsOf(Segments, n - 1)
    IN /\ dStatus # "thrown"
       /\ dStatus = "reading" => IsPrefix(dYielded, earlier)
       /\ dStatus \in Finished =>
            dYielded = Append(earlier, JSONParse(Segments[n]).value)

\* C9 witness: streamChat has ended on a body of two lines whose last line
\* has no newline.
C9_Witness ==
  /\ dOp = "chat" /\ dStatus = "ended" /\ TrailingLine
  /\ Len(dYielded) = 2 /\ Len(dSplit) >= 2

RECURSIVE PullObjects(_, _)
\* What pullModel is to yield for the segments from i on: an error status
\* for a terminated line that does not parse, nothing for a final text that
\* does not parse, and nothing after a terminal status in a terminated line.
PullObjects(segs, i) ==
  IF i > Len(segs) THEN <<>>
  ELSE LET p == JSONParse(segs[i])
           last == (i = Len(segs))
       IN IF IsBlank(segs[i]) THEN PullObjects(segs, i + 1)
          ELSE IF ~p.ok
               THEN IF last THEN <<>>
                    ELSE <<ParseErrorStatus>> \o PullObjects(segs, i + 1)
          ELSE IF ~last /\ IsTerminalStatus(p.value) THEN <<p.value>>
          ELSE <<p.value>> \o PullObjects(segs, i + 1)

EndsPull(v) ==
  /\ v # ParseErrorStatus
  /\ v.status = "success" \/ v.error # ""

Sends == 1..MaxSends
\* Send i consumes call i of streamChat; one more call than there are sends
\* lets the handle be exercised by three overlapping calls.
Calls == 1..(MaxSends + 1)
\* message.content of the k-th content chunk of a stream: the pieces differ,
\* so that the order of accumulation shows
ChunkTexts == <<"a", "b", "c", "d">>
ChunkContents(k) == {ChunkTexts[k]}

\* message contents are sequences of text pieces; the input has white space
\* around it: userMessageContent = inputMessage.trim()
InputMessage == <<" ", "hi", " ">>
UserText == Trim(InputMessage)
PlaceholderText == <<"...">>
EditedText == <<"edited">>

\* new Date(): the clock may or may not have advanced since the last read.
Times == {t \in {clock, clock + 1} : t <= MaxClock}

\* --- values thrown ------------------------------------------------------
\* Only the properties the catch clauses read: name, error, message.
\* A string has none of them.
AbortErrorException == [name |-> "AbortError", error |-> "", message |-> "aborted"]
ReasonString == [name |-> "", error |-> "", message |-> ""]
TypeErrorException == [name |-> "TypeError", error |-> "", message |-> "Failed to fetch"]
HttpErrorData == [name |-> "", error |-> "HTTP error! status", message |-> ""]
ParseErrorException == [name |-> "Error", error |-> "", message |-> "Parse stream line (chat)"]

\* What fetch() and reader.read() reject with once controller.abort(reason)
\* has run: the reason, or an AbortError DOMException when there is none.
\* streamChat and stopStreamingChat both pass a string.
\* (AbortRejectionWithoutReason is an abort() called with no argument.)
AbortRejectionWithoutReason(hasReason) == AbortErrorException
AbortRejection(hasReason) ==
  IF hasReason THEN ReasonString ELSE AbortErrorException

\* streamChat: catch (error) { if (error.name === 'AbortError') return; throw error }
StreamChatCatch(err) == IF err.name = "AbortError" THEN "return" ELSE "throw"

\* handleSendMessage: err.error || err.message || 'Failed to get response from Ollama.'
ErrorText(err) ==
  IF err.error # "" THEN err.error
  ELSE IF err.message # "" THEN err.message
  ELSE "Failed to get response from Ollama."

\* --- store queries ------------------------------------------------------
MsgIdsOf(c) == {id \in DOMAIN messagesTbl : messagesTbl[id].conversationId = c}

Row(tbl, id) == [id |-> id, conversationId |-> tbl[id].conversationId,
                 role |-> tbl[id].role, content |-> tbl[id].content,
                 createdAt |-> tbl[id].createdAt]

RECURSIVE SortBy(_, _)
\* Collection.sortBy('createdAt'): a stable sort of the rows in key order.
SortBy(tbl, ids) ==
  IF ids = {} THEN <<>>
  ELSE LET first == CHOOSE id \in ids : \A o \in ids :
                       \/ tbl[id].createdAt < tbl[o].createdAt
                       \/ tbl[id].createdAt = tbl[o].createdAt /\ id <= o
       IN <<Row(tbl, first)>> \o SortBy(tbl, ids \ {first})

\* db.messages.where('conversationId').equals(c).sortBy('createdAt')
MessagesOf(c) == SortBy(messagesTbl, MsgIdsOf(c))

\* A Dexie transaction on both tables is open: the operations of other
\* handlers on these tables wait until it has completed.
TxActive == tx.active

IdleSend == [pc |-> "idle", mounted |-> FALSE, conversation |-> NULL,
             camId |-> NULL, convId |-> NULL, assistantMsgId |-> NULL,
             acc |-> <<>>, failed |-> "", errorSet |-> "", wrote |-> FALSE,
             sawDone |-> FALSE, quiet |-> FALSE, stamp |-> <<0, 0, 0>>,
             model |-> "", seenModel |-> "", chosen |-> "",
             history |-> <<>>, text |-> <<>>]
\* a call of streamChat: where its generator is suspended, whether its
\* AbortController has been aborted, and how it ended
IdleChat == [pc |-> "idle", aborted |-> FALSE, result |-> ""]
IdleEdit == [pc |-> "idle", n |-> 0, mounted |-> FALSE, conversation |-> NULL,
             msgId |-> NULL, convId |-> NULL, createdAt |-> 0, ids |-> {},
             time |-> 0, pre |-> <<>>, alone |-> FALSE, nextMsgId |-> 0,
             displayed |-> <<>>, failed |-> ""]
IdleDel == [pc |-> "idle", n |-> 0, conv |-> NULL, sel |-> NULL, removed |-> 0,
            failed |-> FALSE]
NoTx == [active |-> FALSE, convs |-> {}, msgs |-> <<>>]

\* availableModels, as fetched by listModels at startup; the first of them
\* becomes currentGlobalModel
AvailableModels == <<"m1", "m2">>

\* checkConnectionAndFetchData has run against a server that answered the
\* probe and listed AvailableModels
StartupDone ==
  /\ availableModels = AvailableModels
  /\ ollamaConnected = TRUE
  /\ connectionStatusMessage = "Ollama connected."
  /\ modelStatusMessage = "model(s) loaded."
  /\ startup = [pc |-> "done", elapsed |-> 0, listModels |-> TRUE,
                probe |-> [kind |-> "response", status |-> 200, at |-> 0]]

\* the probe of checkConnection has no outcome yet
NoProbe == [kind |-> "none", status |-> 0, at |-> 0]
\* statuses the probe is answered with
ProbeStatuses == {200, 500}

\* no request is being answered
NoErrorData == [kind |-> "none", error |-> "", status |-> 0]
NoThrow == [name |-> "", message |-> "", error |-> "", status |-> 0]
HttpIdle ==
  /\ hOp = "none" /\ hStatus = 0 /\ hBody = NoErrorData /\ hPc = "idle"
  /\ hErrorData = NoErrorData /\ hThrown = NoThrow /\ hYielded = <<>>

\* private currentPullController = null; private currentGenerateController = null;
\* no call of streamGenerate or pullModel has been made
OtherCategories == {"generate", "pull"}
OtherCalls == 1..MaxOtherCalls
HandlesIdle ==
  /\ currentController = [c \in OtherCategories |-> NULL]
  /\ requests = [c \in OtherCategories |-> [r \in OtherCalls |-> IdleChat]]

\* selectedModelName={selectedConversation?.model || currentGlobalModel}
SelectedModelName ==
  IF selectedConversation # NULL /\ selectedConvModel # ""
  THEN selectedConvModel
  ELSE currentGlobalModel

\* A conversation stored by earlier sends: its first message is the user's,
\* the createdAt values do not decrease with the ids.
StoredConversation == 1
StoredMessages ==
  UNION {
    {[id \in 1..n |->
        [conversationId |-> StoredConversation, role |-> roles[id],
         content |-> IF roles[id] = "user" THEN UserText ELSE <<"a">>,
         createdAt |-> times[id]]] :
       <<roles, times>> \in
         {rt \in [1..n -> {"user", "assistant"}] \X [1..n -> 0..MaxClock] :
            /\ rt[1][1] = "user"
            /\ \A a, b \in 1..n : a <= b => rt[2][a] <= rt[2][b]}}
    : n \in 1..MaxStored}
\* one completed exchange: a user message and the assistant's answer
StoredExchange ==
  {tbl \in StoredMessages : Len(tbl) = 2 /\ tbl[2].role = "assistant"}

MainInitApp ==
  /\ clock = 0
  /\ conversationsTbl = {} /\ messagesTbl = <<>>
  /\ updatedAt = <<>> /\ title = <<>>
  /\ nextConvId = 1 /\ nextMsgId = 1
  /\ selectedConversation = NULL /\ conversations = {} /\ convLoad = FALSE
  /\ messages = <<>> /\ isLoading = FALSE /\ error = ""
  /\ currentAssistantMessageId = NULL /\ msgLoad = FALSE
  /\ currentChatController = NULL
  /\ chats = [r \in Calls |-> IdleChat]
  /\ sends = [i \in Sends |-> IdleSend]
  /\ edit = IdleEdit /\ del = IdleDel /\ tx = NoTx
  /\ gestures = 0
  /\ convModel = <<>> /\ listedModel = <<>> /\ selectedConvModel = ""
  /\ currentGlobalModel = AvailableModels[1]

MainInit == MainInitApp /\ StartupDone /\ HttpIdle /\ HandlesIdle

\* ------------------------------------------------------------------------
\* OllamaApi.streamChat and stopStreamingChat
\* ------------------------------------------------------------------------
\* if (this.currentChatController) this.currentChatController.abort('New chat
\* request started'); this.currentChatController = new AbortController();
\* then fetch(...) with its signal
StreamChatStart(r) ==
  /\ chats' = [q \in Calls |->
       IF q = r THEN [pc |-> "fetch", aborted |-> FALSE, result |-> ""]
       ELSE IF q = currentChatController THEN [chats[q] EXCEPT !.aborted = TRUE]
       ELSE chats[q]]
  /\ currentChatController' = r

\* The handle is cleared while the generator of call r is left suspended.
StreamChatFinallyNotEnded(r, result) ==
  /\ chats' = [chats EXCEPT ![r] = [@ EXCEPT !.result = result]]
  /\ currentChatController' = NULL

\* finally { this.currentChatController = null; }: the generator of call r
\* ends with the given result ("completed", "returned" or "thrown").
StreamChatFinally(r, result) ==
  /\ chats' = [chats EXCEPT ![r] = [@ EXCEPT !.pc = "closed", !.result = result]]
  /\ currentChatController' = NULL

\* An await of call r rejects with err (or a line does not parse): the
\* catch clause returns or rethrows, then the finally clause runs.
StreamChatRejected(r, err) ==
  StreamChatFinally(r, IF StreamChatCatch(err) = "return" THEN "returned"
                       ELSE "thrown")

\* stopStreamingChat()
StopStreamingChat ==
  /\ IF currentChatController # NULL
     THEN /\ chats' = [chats EXCEPT ![currentChatController] =
                         [@ EXCEPT !.aborted = TRUE]]
          /\ currentChatController' = NULL
     ELSE UNCHANGED apiVars
  /\ UNCHANGED <<clock, storeVars, appVars, winVars, sends, edit, del, tx, gestures, decVars, netVars, modelVars>>

\* --- streamChat driven by an arbitrary consumer --------------------------
NotApi == <<clock, storeVars, appVars, winVars, sends, edit, del, tx, gestures, decVars, netVars, modelVars>>

\* a consumer calls streamChat(body) and next()
ApiStreamChat(r) ==
  /\ chats[r].pc = "idle"
  /\ r > 1 => chats[r - 1].pc # "idle"
  /\ StreamChatStart(r)
  /\ UNCHANGED NotApi

\* await fetch(...) settles
ApiFetch(r) ==
  /\ chats[r].pc = "fetch"
  /\ IF chats[r].aborted
     THEN StreamChatRejected(r, AbortRejection(TRUE))
     ELSE \/ /\ chats' = [chats EXCEPT ![r] = [@ EXCEPT !.pc = "read"]]
             /\ UNCHANGED currentChatController
          \/ /\ chats' = [chats EXCEPT ![r] = [@ EXCEPT !.pc = "errorBody"]]
             /\ UNCHANGED currentChatController
          \/ StreamChatRejected(r, TypeErrorException)
  /\ UNCHANGED NotApi

\* await response.json().catch(...) settles; throw errorData
ApiErrorBody(r) ==
  /\ chats[r].pc = "errorBody"
  /\ StreamChatRejected(r, HttpErrorData)
  /\ UNCHANGED NotApi

\* await reader.read() settles; the consumer may leave its loop at a chunk
ApiRead(r) ==
  /\ chats[r].pc = "read"
  /\ IF chats[r].aborted
     THEN StreamChatRejected(r, AbortRejection(TRUE))
     ELSE \/ StreamChatFinally(r, "returned")      \* break at a yielded chunk
          \/ StreamChatFinally(r, "completed")     \* the body ends
          \/ StreamChatRejected(r, ParseErrorException)
          \/ StreamChatRejected(r, TypeErrorException)
  /\ UNCHANGED NotApi

ApiNext ==
  \/ \E r \in Calls : ApiStreamChat(r)
  \/ \E r \in Calls : ApiFetch(r)
  \/ \E r \in Calls : ApiErrorBody(r)
  \/ \E r \in Calls : ApiRead(r)
  \/ StopStreamingChat

\* ------------------------------------------------------------------------
\* ChatWindow.handleSendMessage; send i consumes call i of streamChat
\* ------------------------------------------------------------------------
WithoutKey(tbl, id) == [k \in DOMAIN tbl \ {id} |-> tbl[k]]
WithoutId(list, id) == SelectSeq(list, LAMBDA m : m.id # id)

\* finally { setIsLoading(false); onConversationUpdate(); }
\* A state setter of an unmounted ChatWindow changes nothing.
Finally(s) ==
  /\ isLoading' = IF s.mounted THEN FALSE ELSE isLoading
  /\ convLoad' = TRUE

\* historyForApi = messages.map(m => ({ role: m.role, content: m.content }));
\* historyForApi.push({ role: 'user', content: userMessageContent }), with
\* the messages of the render the handler was created in
HistoryForApi(list) ==
  [k \in DOMAIN list |-> <<list[k].role, list[k].content>>]
    \o << <<"user", UserText>> >>

\* No other handler is between its first and its last store operation, and
\* what distinguishes a later state in which none has written since.
OthersQuiet(i) ==
  /\ \A j \in Sends \ {i} : sends[j].pc \in {"idle", "done"}
  /\ edit.pc \in {"idle", "done"}
  /\ del.pc \in {"idle", "done"}

\* if (!inputMessage.trim() || isLoading) return;  ...  setIsLoading(true) ...
SendStart(i) ==
  /\ Trim(InputMessage) # <<>>
  /\ SelectedModelName # ""
  /\ sends[i].pc = "idle"
  /\ gestures < MaxGestures
  /\ gestures' = gestures + 1
  /\ i > 1 => sends[i - 1].pc # "idle"
  /\ ~isLoading
  /\ isLoading' = TRUE
  /\ error' = ""
  /\ currentAssistantMessageId' = NULL
  /\ sends' = [sends EXCEPT ![i] =
                 [@ EXCEPT !.pc = "convWrite", !.mounted = TRUE,
                           !.text = Trim(InputMessage),
                           !.conversation = selectedConversation,
                           !.camId = currentAssistantMessageId,
                           !.quiet = OthersQuiet(i),
                           !.stamp = <<nextMsgId, edit.n, del.n>>,
                           !.model = SelectedModelName,
                           !.seenModel = selectedConvModel,
                           !.chosen = currentGlobalModel,
                           !.history = HistoryForApi(messages)]]
  /\ UNCHANGED <<clock, storeVars, appVars, messages, msgLoad, apiVars,
                 edit, del, tx, decVars, netVars, modelVars>>

\* db.conversations.update(id, { updatedAt: new Date() }): Dexie changes
\* nothing when no row has the key.
Touch(tbl, id, t) == IF id \in DOMAIN tbl THEN [tbl EXCEPT ![id] = t] ELSE tbl

\* db.conversations.add(...) for a new chat, db.conversations.update(...)
\* for the conversation of the conversation prop
SendConvWrite(i) ==
  /\ sends[i].pc = "convWrite"
  /\ ~TxActive
  /\ \E t \in Times :
       /\ clock' = t
       /\ IF sends[i].conversation = NULL
          THEN /\ conversationsTbl' = conversationsTbl \cup {nextConvId}
               /\ updatedAt' = (nextConvId :> t) @@ updatedAt
               /\ title' = (nextConvId :> PlaceholderTitle) @@ title
               /\ convModel' = (nextConvId :> sends[i].model) @@ convModel
               /\ nextConvId' = nextConvId + 1
               /\ sends' = [sends EXCEPT ![i] =
                              [@ EXCEPT !.pc = "title", !.convId = nextConvId]]
          ELSE /\ UNCHANGED <<conversationsTbl, nextConvId, title>>
               /\ updatedAt' = Touch(updatedAt, sends[i].conversation, t)
               /\ convModel' =
                    IF sends[i].seenModel # sends[i].model
                    THEN Touch(convModel, sends[i].conversation, sends[i].model)
                    ELSE convModel
               /\ sends' = [sends EXCEPT ![i] =
                              [@ EXCEPT !.pc = "addUser",
                                        !.convId = sends[i].conversation]]
  /\ UNCHANGED <<messagesTbl, nextMsgId, appVars, winVars, apiVars,
                 edit, del, tx, gestures, decVars, netVars,
                 listedModel, selectedConvModel, currentGlobalModel>>

\* generateTitle: db.conversations.update(convId, { title }); onConversationUpdate()
SendTitle(i) ==
  /\ sends[i].pc = "title"
  /\ ~TxActive
  /\ title' = Touch(title, sends[i].convId, GenerateTitle(sends[i].text))
  /\ convLoad' = TRUE
  /\ sends' = [sends EXCEPT ![i] = [@ EXCEPT !.pc = "getConv"]]
  /\ UNCHANGED <<clock, conversationsTbl, updatedAt, messagesTbl, nextConvId,
                 nextMsgId, selectedConversation, conversations,
                 winVars, apiVars, edit, del, tx, gestures, decVars, netVars, modelVars>>

\* currentConversation = await db.conversations.get(newConvId) || null
SendGetConv(i) ==
  /\ sends[i].pc = "getConv"
  /\ ~TxActive
  /\ sends' = [sends EXCEPT ![i] = [@ EXCEPT !.pc = "addUser"]]
  /\ UNCHANGED <<clock, storeVars, appVars, winVars, apiVars, edit, del, tx, gestures, decVars, netVars, modelVars>>

\* db.messages.add(userMessage); setMessages(prev => [...prev, userMessage])
SendAddUser(i) ==
  /\ sends[i].pc = "addUser"
  /\ ~TxActive
  /\ \E t \in Times :
       LET row == [conversationId |-> sends[i].convId, role |-> "user",
                   content |-> sends[i].text, createdAt |-> t]
       IN /\ clock' = t
          /\ messagesTbl' = (nextMsgId :> row) @@ messagesTbl
          /\ messages' = IF sends[i].mounted
                         THEN Append(messages, Row(messagesTbl', nextMsgId))
                         ELSE messages
  /\ nextMsgId' = nextMsgId + 1
  /\ sends' = [sends EXCEPT ![i] = [@ EXCEPT !.pc = "addPlaceholder"]]
  /\ UNCHANGED <<conversationsTbl, updatedAt, title, nextConvId, appVars, isLoading, error,
                 currentAssistantMessageId, msgLoad, apiVars, edit, del, tx, gestures, decVars, netVars, modelVars>>

\* db.messages.add(assistantMessagePlaceholder); then the for await loop
\* calls streamChat and its first next()
SendAddPlaceholder(i) ==
  /\ sends[i].pc = "addPlaceholder"
  /\ ~TxActive
  /\ \E t \in Times :
       LET row == [conversationId |-> sends[i].convId, role |-> "assistant",
                   content |-> PlaceholderText, createdAt |-> t]
       IN /\ clock' = t
          /\ messagesTbl' = (nextMsgId :> row) @@ messagesTbl
          /\ messages' = IF sends[i].mounted
                         THEN Append(messages, Row(messagesTbl', nextMsgId))
                         ELSE messages
  /\ nextMsgId' = nextMsgId + 1
  /\ currentAssistantMessageId' =
       IF sends[i].mounted THEN nextMsgId ELSE currentAssistantMessageId
  /\ sends' = [sends EXCEPT ![i] =
                 [@ EXCEPT !.pc = "stream", !.assistantMsgId = nextMsgId]]
  /\ StreamChatStart(i)
  /\ UNCHANGED <<conversationsTbl, updatedAt, title, nextConvId, appVars, isLoading, error,
                 msgLoad, edit, del, tx, gestures, decVars, netVars, modelVars>>

\* catch (err) of handleSendMessage, up to its await or its end.  The test
\* reads the currentAssistantMessageId of the render the handler was
\* created in.
HandlerCatch(i, s, err) ==
  /\ error' = IF s.mounted THEN ErrorText(err) ELSE error
  /\ IF s.camId # NULL
     THEN /\ messages' = IF s.mounted THEN WithoutId(messages, s.camId)
                         ELSE messages
          /\ sends' = [sends EXCEPT ![i] =
                         [s EXCEPT !.pc = "catchDelete",
                                   !.errorSet = ErrorText(err)]]
          /\ UNCHANGED <<currentAssistantMessageId, isLoading, convLoad>>
     ELSE /\ currentAssistantMessageId' =
               IF s.mounted THEN NULL ELSE currentAssistantMessageId
          /\ Finally(s)
          /\ sends' = [sends EXCEPT ![i] =
                         [s EXCEPT !.pc = "done", !.errorSet = ErrorText(err)]]
          /\ UNCHANGED messages

\* The loop of send i, whose locals are s, is over without an exception:
\* the update of the assistant message is issued.
LoopExitWith(i, s) ==
  /\ sends' = [sends EXCEPT ![i] = [s EXCEPT !.pc = "final"]]
  /\ UNCHANGED <<winVars, convLoad>>

LoopExit(i) == LoopExitWith(i, sends[i])

\* assistantResponseContent += chunk.message.content
AccumulateReplaced(acc, c) == <<c>>
Accumulate(acc, c) == Append(acc, c)

\* if (chunk.done) { ...; break; }
BreakOnDoneIgnored(done) == FALSE
BreakOnDone(done) == done

\* An await of streamChat rejects with err, or a line does not parse, while
\* send i consumes it; why names a failure of the stream.
Throw(i, err, why) ==
  /\ StreamChatRejected(i, err)
  /\ IF StreamChatCatch(err) = "return"
     THEN LoopExit(i)
     ELSE /\ HandlerCatch(i, [sends[i] EXCEPT !.failed = why], err)
          /\ UNCHANGED msgLoad
  /\ UNCHANGED <<clock, storeVars, selectedConversation, conversations,
                 edit, del, tx, gestures, decVars, netVars, modelVars>>

\* await fetch(...) settles
SendFetch(i) ==
  /\ sends[i].pc = "stream" /\ chats[i].pc = "fetch"
  /\ IF chats[i].aborted
     THEN Throw(i, AbortRejection(TRUE), "")
     ELSE \/ /\ chats' = [chats EXCEPT ![i] = [@ EXCEPT !.pc = "read"]]
             /\ UNCHANGED <<clock, storeVars, appVars, winVars,
                            currentChatController, sends, edit, del, tx, gestures, decVars, netVars, modelVars>>
          \/ /\ chats' = [chats EXCEPT ![i] = [@ EXCEPT !.pc = "errorBody"]]
             /\ UNCHANGED <<clock, storeVars, appVars, winVars,
                            currentChatController, sends, edit, del, tx, gestures, decVars, netVars, modelVars>>
          \/ Throw(i, TypeErrorException, "network")

\* if (!response.ok) { errorData = await response.json().catch(...); throw errorData }
SendErrorBody(i) ==
  /\ sends[i].pc = "stream" /\ chats[i].pc = "errorBody"
  /\ Throw(i, HttpErrorData, "http")

\* await reader.read() settles; the lines of the chunk are yielded and the
\* body of the for await loop runs for each of them
SendRead(i) ==
  /\ sends[i].pc = "stream" /\ chats[i].pc = "read"
  /\ IF chats[i].aborted
     THEN Throw(i, AbortRejection(TRUE), "")
     ELSE \/ \E hasContent, done \in BOOLEAN :   \* a chunk is yielded
               /\ hasContent \/ done
               /\ hasContent => Len(sends[i].acc) < MaxChunks
               /\ \E c \in ChunkContents(Len(sends[i].acc) + 1) :
                    LET s == [sends[i] EXCEPT
                                !.acc = IF hasContent THEN Accumulate(@, c)
                                        ELSE @,
                                !.sawDone = @ \/ done]
                    IN IF BreakOnDone(done)
                       THEN /\ StreamChatFinally(i, "returned")
                            /\ LoopExitWith(i, s)
                       ELSE /\ sends' = [sends EXCEPT ![i] = s]
                            /\ UNCHANGED <<winVars, convLoad, apiVars>>
               /\ UNCHANGED <<clock, storeVars, selectedConversation,
                              conversations, edit, del, tx, gestures, decVars, netVars, modelVars>>
          \/ /\ StreamChatFinally(i, "completed") \* the body ends
             /\ LoopExit(i)
             /\ UNCHANGED <<clock, storeVars, selectedConversation,
                            conversations, edit, del, tx, gestures, decVars, netVars, modelVars>>
          \/ Throw(i, ParseErrorException, "malformed")
          \/ Throw(i, TypeErrorException, "network")

\* setMessages of loadMessages and the statements after it
AfterLoad(s, list) ==
  /\ messages' = IF s.mounted THEN list ELSE messages
  /\ currentAssistantMessageId' =
       IF s.mounted THEN NULL ELSE currentAssistantMessageId
  /\ Finally(s)

\* db.messages.update(assistantMsgId, { content, createdAt }); loadMessages()
SendFinal(i) ==
  /\ sends[i].pc = "final"
  /\ ~TxActive
  /\ \E t \in Times :
       /\ clock' = t
       /\ messagesTbl' =
            IF sends[i].assistantMsgId \in DOMAIN messagesTbl
            THEN [messagesTbl EXCEPT ![sends[i].assistantMsgId] =
                    [@ EXCEPT !.content = sends[i].acc, !.createdAt = t]]
            ELSE messagesTbl
  /\ IF sends[i].conversation # NULL
     THEN /\ sends' = [sends EXCEPT ![i] =
                         [@ EXCEPT !.pc = "reload", !.wrote = TRUE]]
          /\ UNCHANGED <<messages, currentAssistantMessageId, isLoading,
                         convLoad>>
     ELSE /\ sends' = [sends EXCEPT ![i] =
                         [@ EXCEPT !.pc = "done", !.wrote = TRUE]]
          /\ AfterLoad(sends[i], <<>>)
  /\ UNCHANGED <<conversationsTbl, updatedAt, title, nextConvId, nextMsgId,
                 selectedConversation, conversations, error, msgLoad,
                 apiVars, edit, del, tx, gestures, decVars, netVars, modelVars>>

\* the query of loadMessages resolves
SendReload(i) ==
  /\ sends[i].pc = "reload"
  /\ ~TxActive
  /\ AfterLoad(sends[i], MessagesOf(sends[i].conversation))
  /\ sends' = [sends EXCEPT ![i] = [@ EXCEPT !.pc = "done"]]
  /\ UNCHANGED <<clock, storeVars, selectedConversation, conversations,
                 error, msgLoad, apiVars, edit, del, tx, gestures, decVars, netVars, modelVars>>

\* await db.messages.delete(currentAssistantMessageId) of the catch clause
SendCatchDelete(i) ==
  /\ sends[i].pc = "catchDelete"
  /\ ~TxActive
  /\ messagesTbl' = WithoutKey(messagesTbl, sends[i].camId)
  /\ currentAssistantMessageId' =
       IF sends[i].mounted THEN NULL ELSE currentAssistantMessageId
  /\ Finally(sends[i])
  /\ sends' = [sends EXCEPT ![i] = [@ EXCEPT !.pc = "done"]]
  /\ UNCHANGED <<clock, conversationsTbl, updatedAt, title, nextConvId, nextMsgId,
                 selectedConversation, conversations, messages, error,
                 msgLoad, apiVars, edit, del, tx, gestures, decVars, netVars, modelVars>>

\* App.loadConversations resolves: setConversations(convs)
LoadConversations ==
  /\ convLoad
  /\ ~TxActive
  /\ conversations' = conversationsTbl
  /\ listedModel' = convModel
  /\ convLoad' = FALSE
  /\ UNCHANGED <<clock, storeVars, selectedConversation, winVars, apiVars,
                 sends, edit, del, tx, gestures, decVars, netVars,
                 convModel, selectedConvModel, currentGlobalModel>>

HandleSendMessage ==
  \E i \in Sends :
    \/ SendStart(i) \/ SendConvWrite(i) \/ SendTitle(i) \/ SendGetConv(i)
    \/ SendAddUser(i) \/ SendAddPlaceholder(i) \/ SendFetch(i)
    \/ SendErrorBody(i) \/ SendRead(i) \/ SendFinal(i) \/ SendReload(i)
    \/ SendCatchDelete(i)

\* ------------------------------------------------------------------------
\* App: selecting a conversation, New Chat; the mount of a ChatWindow
\* ------------------------------------------------------------------------
\* <ChatWindow key={selectedConversation?.id || 'new'} />: a new key mounts
\* a new instance with fresh state, whose effect calls loadMessages(); the
\* handlers of the old instance go on running, their setters without effect.
Remount(sel) ==
  /\ messages' = <<>>
  /\ isLoading' = FALSE
  /\ error' = ""
  /\ currentAssistantMessageId' = NULL
  /\ msgLoad' = (sel # NULL)
  /\ sends' = [j \in Sends |-> [sends[j] EXCEPT !.mounted = FALSE]]
  /\ edit' = [edit EXCEPT !.mounted = FALSE]

\* App.handleSelectConversation(conversation), from a row of the sidebar
HandleSelectConversation(c) ==
  /\ c \in conversations
  /\ gestures < MaxGestures
  /\ gestures' = gestures + 1
  /\ c # selectedConversation
  /\ selectedConversation' = c
  /\ selectedConvModel' = listedModel[c]
  /\ currentGlobalModel' =
       IF listedModel[c] # "" THEN listedModel[c] ELSE currentGlobalModel
  /\ Remount(c)
  /\ UNCHANGED <<clock, storeVars, conversations, convLoad, apiVars, del, tx,
                 decVars, netVars, convModel, listedModel>>

\* App.handleNewConversation()
HandleNewConversation ==
  /\ selectedConversation # NULL
  /\ gestures < MaxGestures
  /\ gestures' = gestures + 1
  /\ selectedConversation' = NULL
  /\ selectedConvModel' = ""
  /\ currentGlobalModel' =
       IF currentGlobalModel = "" /\ Len(availableModels) > 0
       THEN availableModels[1] ELSE currentGlobalModel
  /\ Remount(NULL)
  /\ UNCHANGED <<clock, storeVars, conversations, convLoad, apiVars, del, tx,
                 decVars, netVars, convModel, listedModel>>

\* ModelSelector: onChange={(e) => onSelectModel(e.target.value)}, with
\* onSelectModel={setCurrentGlobalModel}
OnSelectModel(m) ==
  /\ ollamaConnected
  /\ \E k \in DOMAIN availableModels : availableModels[k] = m
  /\ m # currentGlobalModel
  /\ gestures < MaxGestures
  /\ gestures' = gestures + 1
  /\ currentGlobalModel' = m
  /\ UNCHANGED <<clock, storeVars, appVars, winVars, apiVars, sends, edit,
                 del, tx, decVars, netVars, convModel, listedModel, selectedConvModel>>

\* ChatWindow.loadMessages of the mount effect resolves
LoadMessages ==
  /\ msgLoad
  /\ ~TxActive
  /\ messages' = MessagesOf(selectedConversation)
  /\ currentAssistantMessageId' = NULL
  /\ msgLoad' = FALSE
  /\ UNCHANGED <<clock, storeVars, appVars, isLoading, error, apiVars,
                 sends, edit, del, tx, gestures, decVars, netVars, modelVars>>

\* ------------------------------------------------------------------------
\* ChatWindow.handleEditMessage
\* ------------------------------------------------------------------------
\* finally { setIsLoading(false); onConversationUpdate(); } of the edit
EditFinally ==
  /\ isLoading' = IF edit.mounted THEN FALSE ELSE isLoading
  /\ convLoad' = TRUE

\* messageToEdit = messages.find(m => m.id === messageId);
\* if (!messageToEdit || messageToEdit.role !== 'user') { setError(...); return; }
\* (EditableAnyRole is the test without its role half.)
EditableAnyRole(list, messageId) ==
  \E k \in DOMAIN list : list[k].id = messageId
Editable(list, messageId) ==
  \E k \in DOMAIN list : list[k].id = messageId /\ list[k].role = "user"

\* setIsLoading(true); setError(null); the query is issued for messages[k]
EditBegin(k) ==
  /\ edit.pc \in {"idle", "done"}
  /\ gestures < MaxGestures
  /\ gestures' = gestures + 1
  /\ edit.n < MaxEdits
  /\ isLoading' = TRUE
  /\ error' = ""
  /\ edit' = [pc |-> "query", n |-> edit.n + 1, mounted |-> TRUE,
              conversation |-> selectedConversation,
              msgId |-> messages[k].id,
              convId |-> messages[k].conversationId,
              createdAt |-> messages[k].createdAt,
              ids |-> {}, time |-> 0,
              pre |-> messagesTbl,
              alone |-> \A i \in Sends : sends[i].pc \in {"idle", "done"},
              nextMsgId |-> nextMsgId,
              displayed |-> messages, failed |-> ""]
  /\ UNCHANGED <<clock, storeVars, appVars, messages,
                 currentAssistantMessageId, msgLoad, apiVars, sends,
                 del, tx, decVars, netVars, modelVars>>

\* The Edit button is drawn for the user messages of the displayed list,
\* and MessageItem calls onEdit only when the content has changed.
EditStart(k) ==
  /\ messages[k].role = "user"
  /\ messages[k].content # EditedText
  /\ Editable(messages, messages[k].id)
  /\ EditBegin(k)

\* The early return of handleEditMessage: setError(...) and nothing else.
EditRejected(messageId) ==
  /\ edit.pc \in {"idle", "done"}
  /\ gestures < MaxGestures
  /\ gestures' = gestures + 1
  /\ edit.n < MaxEdits
  /\ error' = "Only user messages can be edited."
  /\ edit' = [edit EXCEPT !.pc = "done", !.n = @ + 1, !.msgId = messageId,
                          !.pre = messagesTbl, !.displayed = messages,
                          !.mounted = TRUE]
  /\ UNCHANGED <<clock, storeVars, appVars, messages, isLoading,
                 currentAssistantMessageId, msgLoad, apiVars, sends,
                 del, tx, decVars, netVars, modelVars>>

\* handleEditMessage(messageId, newContent) called with any id
EditCall(messageId) ==
  IF Editable(messages, messageId)
  THEN \E k \in DOMAIN messages : messages[k].id = messageId /\ EditBegin(k)
  ELSE EditRejected(messageId)

\* A store operation of the edit rejects: catch (err) { setError(err.message
\* || "Failed to edit message.") } finally { ... }
StoreFailure == [name |-> "DexieError", error |-> "", message |-> "store failure"]
EditErrorText(err) ==
  IF err.message # "" THEN err.message ELSE "Failed to edit message."
EditFails ==
  /\ edit.pc \in {"query", "bulkDelete", "update", "reload"}
  /\ ~TxActive
  /\ error' = IF edit.mounted THEN EditErrorText(StoreFailure) ELSE error
  /\ EditFinally
  /\ edit' = [edit EXCEPT !.pc = "done", !.failed = edit.pc]
  /\ UNCHANGED <<clock, storeVars, selectedConversation, conversations,
                 messages, currentAssistantMessageId, msgLoad, apiVars,
                 sends, del, tx, gestures, decVars, netVars, modelVars>>

\* .and(msg => msg.createdAt > messageToEdit.createdAt)
IsAfter(row, createdAt) == row.createdAt > createdAt

\* messagesAfter = await db.messages.where('conversationId').equals(...)
\*   .and(...).toArray(); idsToDelete = messagesAfter.map(m => m.id)
EditQuery ==
  /\ edit.pc = "query"
  /\ ~TxActive
  /\ LET ids == {id \in MsgIdsOf(edit.convId) :
                   IsAfter(messagesTbl[id], edit.createdAt)}
     IN edit' = [edit EXCEPT !.ids = ids,
                             !.pc = IF ids # {} THEN "bulkDelete" ELSE "update"]
  /\ UNCHANGED <<clock, storeVars, appVars, winVars, apiVars, sends,
                 del, tx, gestures, decVars, netVars, modelVars>>

\* await db.messages.bulkDelete(idsToDelete)
EditBulkDelete ==
  /\ edit.pc = "bulkDelete"
  /\ ~TxActive
  /\ messagesTbl' = [id \in DOMAIN messagesTbl \ edit.ids |-> messagesTbl[id]]
  /\ edit' = [edit EXCEPT !.pc = "update"]
  /\ UNCHANGED <<clock, conversationsTbl, updatedAt, title, nextConvId, nextMsgId, appVars,
                 winVars, apiVars, sends, del, tx, gestures, decVars, netVars, modelVars>>

\* await db.messages.update(messageId, { content: newContent, createdAt:
\* new Date() }); then loadMessages() of the render the handler belongs to
EditUpdate ==
  /\ edit.pc = "update"
  /\ ~TxActive
  /\ \E t \in Times :
       /\ clock' = t
       /\ messagesTbl' =
            IF edit.msgId \in DOMAIN messagesTbl
            THEN [messagesTbl EXCEPT ![edit.msgId] =
                    [@ EXCEPT !.content = EditedText, !.createdAt = t]]
            ELSE messagesTbl
       /\ IF edit.conversation # NULL
          THEN /\ edit' = [edit EXCEPT !.pc = "reload", !.time = t]
               /\ UNCHANGED <<messages, isLoading, convLoad>>
          ELSE /\ edit' = [edit EXCEPT !.pc = "done", !.time = t]
               /\ messages' = IF edit.mounted THEN <<>> ELSE messages
               /\ EditFinally
  /\ UNCHANGED <<conversationsTbl, updatedAt, title, nextConvId, nextMsgId,
                 selectedConversation, conversations, error,
                 currentAssistantMessageId, msgLoad, apiVars, sends,
                 del, tx, gestures, decVars, netVars, modelVars>>

\* the query of loadMessages resolves; finally
EditReload ==
  /\ edit.pc = "reload"
  /\ ~TxActive
  /\ messages' = IF edit.mounted THEN MessagesOf(edit.conversation)
                 ELSE messages
  /\ currentAssistantMessageId' =
       IF edit.mounted THEN NULL ELSE currentAssistantMessageId
  /\ EditFinally
  /\ edit' = [edit EXCEPT !.pc = "done"]
  /\ UNCHANGED <<clock, storeVars, selectedConversation, conversations,
                 error, msgLoad, apiVars, sends, del, tx, gestures, decVars, netVars, modelVars>>

HandleEditMessage ==
  \/ \E k \in DOMAIN messages : EditStart(k)
  \/ EditQuery
  \/ EditBulkDelete
  \/ EditUpdate
  \/ EditReload

\* ------------------------------------------------------------------------
\* App.handleDeleteConversation
\* ------------------------------------------------------------------------
\* What the tables show to the other handlers after a write made inside
\* the open 'rw' transaction: the committed rows, until the commit.
\* (StagedVisible is a store whose writes are applied one by one, without
\* a transaction around them.)
StagedVisible(committed, staged) == staged
Staged(committed, staged) == committed

\* The transaction is abandoned: nothing of it is applied, the rejection
\* reaches catch (error) { console.error(...) }.
DelAbort ==
  /\ tx' = NoTx
  /\ del' = [del EXCEPT !.pc = "done", !.failed = TRUE]

\* the delete button of a sidebar row: db.transaction('rw', db.conversations,
\* db.messages, async () => { ... }) is opened
DeleteStart(c) ==
  /\ del.pc \in {"idle", "done"}
  /\ del.n < MaxDeletes
  /\ gestures < MaxGestures
  /\ ~TxActive
  /\ gestures' = gestures + 1
  /\ tx' = [active |-> TRUE, convs |-> conversationsTbl, msgs |-> messagesTbl]
  /\ del' = [pc |-> "txMessages", n |-> del.n + 1, conv |-> c,
             sel |-> selectedConversation, removed |-> 0, failed |-> FALSE]
  /\ UNCHANGED <<clock, storeVars, appVars, winVars, apiVars, sends, edit,
                 decVars, netVars, modelVars>>

\* await db.messages.where('conversationId').equals(conversationId).delete()
DelMessages ==
  /\ del.pc = "txMessages"
  /\ \/ LET rest == [id \in {k \in DOMAIN tx.msgs :
                               tx.msgs[k].conversationId # del.conv}
                       |-> tx.msgs[id]]
        IN /\ tx' = [tx EXCEPT !.msgs = rest]
           /\ messagesTbl' = Staged(messagesTbl, rest)
           /\ del' = [del EXCEPT !.pc = "txConversation",
                        !.removed = Cardinality(DOMAIN tx.msgs \ DOMAIN rest)]
     \/ DelAbort /\ UNCHANGED messagesTbl
  /\ UNCHANGED <<clock, conversationsTbl, updatedAt, title, nextConvId, nextMsgId, appVars,
                 winVars, apiVars, sends, edit, gestures, decVars, netVars, modelVars>>

\* await db.conversations.delete(conversationId)
DelConversation ==
  /\ del.pc = "txConversation"
  /\ \/ /\ tx' = [tx EXCEPT !.convs = @ \ {del.conv}]
        /\ conversationsTbl' = Staged(conversationsTbl, tx.convs \ {del.conv})
        /\ del' = [del EXCEPT !.pc = "commit"]
     \/ DelAbort /\ UNCHANGED conversationsTbl
  /\ UNCHANGED <<clock, updatedAt, title, messagesTbl, nextConvId, nextMsgId, appVars,
                 winVars, apiVars, sends, edit, gestures, decVars, netVars, modelVars>>

\* the scope function has returned: the transaction commits, or fails to
DelCommit ==
  /\ del.pc = "commit"
  /\ \/ /\ conversationsTbl' = tx.convs
        /\ updatedAt' = [c \in DOMAIN updatedAt \cap tx.convs |-> updatedAt[c]]
        /\ convModel' = [c \in DOMAIN convModel \cap tx.convs |-> convModel[c]]
        /\ title' = [c \in DOMAIN title \cap tx.convs |-> title[c]]
        /\ messagesTbl' = tx.msgs
        /\ tx' = NoTx
        /\ del' = [del EXCEPT !.pc = "reload"]
     \/ DelAbort /\ UNCHANGED <<conversationsTbl, updatedAt, title, convModel,
                                messagesTbl>>
  /\ UNCHANGED <<clock, nextConvId, nextMsgId, appVars, winVars, apiVars,
                 sends, edit, gestures, decVars, netVars,
                 listedModel, selectedConvModel, currentGlobalModel>>

\* await loadConversations(); if (selectedConversation?.id === conversationId)
\* setSelectedConversation(null), with the selectedConversation of the
\* render the handler was created in
DelReload ==
  /\ del.pc = "reload"
  /\ ~TxActive
  /\ conversations' = conversationsTbl
  /\ listedModel' = convModel
  /\ IF del.sel = del.conv /\ selectedConversation # NULL
     THEN /\ selectedConversation' = NULL
          /\ selectedConvModel' = ""
          /\ Remount(NULL)
     ELSE UNCHANGED <<selectedConversation, selectedConvModel, winVars,
                      sends, edit>>
  /\ del' = [del EXCEPT !.pc = "done"]
  /\ UNCHANGED <<clock, storeVars, convLoad, apiVars, tx, gestures, decVars, netVars,
                 convModel, currentGlobalModel>>

HandleDeleteConversation ==
  \/ \E c \in conversations : DeleteStart(c)
  \/ DelMessages
  \/ DelConversation
  \/ DelCommit
  \/ DelReload

\* ------------------------------------------------------------------------
\* Properties of the chat handle (specification SpecApi)
\* ------------------------------------------------------------------------
InFlight(r) == chats[r].pc \in {"fetch", "errorBody", "read"}
Live == {r \in Calls : InFlight(r) /\ ~chats[r].aborted}

\* C1 as claimed: at every moment at most one chat request is in flight
\* whose AbortController has not been aborted.
C1_AtMostOneLiveChat == Cardinality(Live) <= 1

\* C27: stopStreamingChat() leaves no chat request in flight whose
\* controller is un-aborted and leaves the handle null, whatever starts,
\* supersessions and terminations came before: a call that finds a handle
\* registered aborts it and clears it, and a call that finds none changes
\* nothing, so that in every state with a null handle (the state such a call
\* returns in) no un-aborted request is in flight either.
C27_StopLeavesNoLiveChat ==
  /\ [](currentChatController = NULL => Live = {})
  /\ [][(StopStreamingChat /\ currentChatController # NULL) =>
          /\ currentChatController' = NULL
          /\ \A r \in Calls :
               chats'[r].pc \in {"fetch", "errorBody", "read"} => chats'[r].aborted]_vars

\* ------------------------------------------------------------------------
\* Properties of the handlers (specification Spec)
\* ------------------------------------------------------------------------
\* Send i owns call i of streamChat.  The call has been cancelled when its
\* AbortController was aborted.
Cancelled(i) == chats[i].aborted

\* C2: a send whose chat request was cancelled by a newer chat request after
\* it had received content chunks never writes the text it accumulated to
\* the message store: it never reaches the final update, and the row of its
\* assistant message never holds that text.
C2_CancelledSendWritesNothing ==
  \A i \in Sends :
    (Cancelled(i) /\ sends[i].acc # <<>>) =>
      /\ ~sends[i].wrote
      /\ sends[i].pc \notin {"final", "reload"}
      /\ sends[i].assistantMsgId \in DOMAIN messagesTbl =>
           messagesTbl[sends[i].assistantMsgId].content # sends[i].acc

\* A send that had received a chunk was cancelled by a newer request and
\* its handler has finished.
C2_Witness ==
  \E i \in Sends :
    /\ Cancelled(i) /\ sends[i].acc # <<>>
    /\ sends[i].pc = "done"
    /\ \E j \in Sends : j > i /\ sends[j].pc \notin {"idle", "convWrite"}

\* C3 as claimed: when a chat stream is cancelled, streamChat ends without
\* throwing to its consumer and the send handler consuming it sets no error.
C3_CancellationIsSilent ==
  \A i \in Sends :
    (Cancelled(i) /\ chats[i].pc = "closed") =>
      /\ chats[i].result # "thrown"
      /\ sends[i].errorSet = ""

\* C4 as claimed: once the placeholder is stored and the stream has failed
\* (HTTP error, network error, malformed line), the finished handler has
\* left no placeholder in the displayed list nor in the store.
C4_PlaceholderRemovedOnFailure ==
  \A i \in Sends :
    (sends[i].failed # "" /\ sends[i].pc = "done") =>
      /\ sends[i].assistantMsgId \notin DOMAIN messagesTbl
      /\ sends[i].mounted =>
           \A k \in DOMAIN messages : messages[k].id # sends[i].assistantMsgId

\* --- the edit, compared with the store it started from -------------------
\* The update of the edit has been written, and nothing but the edit has
\* written to the tables since it began.
EditWritten == edit.n > 0 /\ edit.pc \in {"reload", "done"}
EditUndisturbed == edit.alone /\ edit.nextMsgId = nextMsgId /\ del.n = 0

\* the conversation of the edited message before the edit, by createdAt
PreIds == {id \in DOMAIN edit.pre : edit.pre[id].conversationId = edit.convId}
PreOrder == SortBy(edit.pre, PreIds)
EditPos == CHOOSE k \in 1..Len(PreOrder) : PreOrder[k].id = edit.msgId
LaterIds == {PreOrder[j].id : j \in (EditPos + 1)..Len(PreOrder)}

\* C5 as claimed: a successful edit of the user message at position k < n
\* removes exactly the messages at positions k+1..n of its conversation,
\* leaves every other message unchanged, and sets the content and the
\* createdAt of message k to the new content and the edit time.
C5_EditRemovesLaterMessages ==
  (EditWritten /\ EditUndisturbed /\ edit.msgId \in PreIds
     /\ EditPos < Len(PreOrder)) =>
    /\ DOMAIN messagesTbl = DOMAIN edit.pre \ LaterIds
    /\ \A id \in DOMAIN messagesTbl \ {edit.msgId} :
         messagesTbl[id] = edit.pre[id]
    /\ messagesTbl[edit.msgId].content = EditedText
    /\ messagesTbl[edit.msgId].createdAt = edit.time

\* --- deletion -----------------------------------------------------------
RowsNotOf(tbl, c) ==
  [id \in {k \in DOMAIN tbl : tbl[k].conversationId # c} |-> tbl[id]]

\* C6: handleDeleteConversation(c) is all-or-nothing.  While its transaction
\* is open every step leaves both tables as they are, except the commit,
\* which removes conversation c and every message of c in one step; a
\* transaction that fails at any step changes nothing.
C6_DeleteAllOrNothing ==
  [][ tx.active =>
        \/ UNCHANGED <<conversationsTbl, messagesTbl>>
        \/ /\ del'.pc = "reload" /\ ~del'.failed
           /\ conversationsTbl' = conversationsTbl \ {del.conv}
           /\ messagesTbl' = RowsNotOf(messagesTbl, del.conv)
           /\ \A id \in DOMAIN messagesTbl' :
                messagesTbl'[id].conversationId # del.conv ]_vars

\* A deletion has committed and took messages of the conversation with it.
C6_Witness ==
  /\ del.pc \in {"reload", "done"} /\ ~del.failed
  /\ del.removed > 0
  /\ del.conv \notin conversationsTbl

\* C7 as claimed: every stored message belongs to a stored conversation.
C7_NoOrphanedMessages ==
  \A id \in DOMAIN messagesTbl :
    messagesTbl[id].conversationId \in conversationsTbl

\* C13 as claimed: whenever a chat request issued by the mounted ChatWindow
\* is outstanding, the isLoading flag of that window is true.
C13_LoadingWhileRequestOutstanding ==
  \A i \in Sends :
    (sends[i].mounted /\ sends[i].pc = "stream" /\ InFlight(i)) => isLoading

\* --- one send, compared with the store it started from -------------------
\* Nothing but send i has written to the messages table since it began:
\* the other handlers were idle or finished, none has run since, and the
\* two rows added since are those of send i.
SendUndisturbed(i) ==
  /\ sends[i].quiet
  /\ sends[i].stamp = <<nextMsgId - 2, edit.n, del.n>>
  /\ edit.pc \in {"idle", "done"}
  /\ del.pc \in {"idle", "done"}

\* the rows added to the messages table since send i began
NewRows(i, role) ==
  {id \in DOMAIN messagesTbl :
     id >= sends[i].stamp[1] /\ messagesTbl[id].role = role}

C17_NothingConsumedAfterDone ==
  \A i \in Sends :
    sends[i].sawDone =>
      /\ sends[i].pc \in {"final", "reload", "done"}
      /\ chats[i].pc = "closed" /\ chats[i].result = "returned"
      /\ (sends[i].wrote /\ sends[i].assistantMsgId \in DOMAIN messagesTbl) =>
           Len(messagesTbl[sends[i].assistantMsgId].content) <= Len(sends[i].acc)

\* A send has observed done = true on its first chunk and has finished,
\* with room left for further chunks of the stream.
C17_Witness ==
  \E i \in Sends :
    /\ sends[i].sawDone /\ sends[i].pc = "done" /\ sends[i].wrote
    /\ Len(sends[i].acc) < MaxChunks

\* ------------------------------------------------------------------------
\* Conversation timestamps
\* ------------------------------------------------------------------------
\* no handleSendMessage and no handleEditMessage is between its first and
\* its last statement
NoSendOrEdit ==
  /\ \A i \in Sends : sends[i].pc \in {"idle", "done"}
  /\ edit.pc \in {"idle", "done"}

\* C12: whenever no send or edit is in progress, the updatedAt of each
\* stored conversation is greater than or equal to the createdAt of every
\* message stored for it.
C12_UpdatedAtCoversMessages ==
  NoSendOrEdit =>
    \A id \in DOMAIN messagesTbl :
      messagesTbl[id].conversationId \in DOMAIN updatedAt =>
        updatedAt[messagesTbl[id].conversationId] >= messagesTbl[id].createdAt

\* ------------------------------------------------------------------------
\* handleEditMessage on a stored conversation
\* ------------------------------------------------------------------------
\* no row of the list has this id and the role 'user'
NoUserMessageShown(list, messageId) ==
  \A k \in DOMAIN list : list[k].id = messageId => list[k].role # "user"

\* C14: handleEditMessage called with the id of an assistant message, or of
\* a message that is not in the displayed list, returns at once with the
\* error "Only user messages can be edited." and leaves every stored
\* message and conversation as it was.
C14_RejectedEditChangesNothing ==
  (edit.n > 0 /\ NoUserMessageShown(edit.displayed, edit.msgId)) =>
    /\ edit.pc = "done"
    /\ error = "Only user messages can be edited."
    /\ messagesTbl = edit.pre
    /\ conversationsTbl = {StoredConversation}
    /\ updatedAt = (StoredConversation :> 0)
    /\ title = (StoredConversation :> GenerateTitle(UserText))
    /\ \A r \in Calls : chats[r] = IdleChat

\* the id of a displayed assistant message was passed
C14_Witness ==
  /\ edit.n > 0 /\ edit.pc = "done"
  /\ \E k \in DOMAIN edit.displayed :
       /\ edit.displayed[k].id = edit.msgId
       /\ edit.displayed[k].role = "assistant"
  /\ error = "Only user messages can be edited."

\* C18: when a store operation of handleEditMessage fails, at any step up
\* to and including the update of the edited message, the stored messages
\* are exactly those present before the edit began: no later message has
\* been deleted while the edited message keeps its old content.
C18_FailedEditCommitsNothing ==
  edit.failed \in {"query", "bulkDelete", "update"} => messagesTbl = edit.pre

\* ------------------------------------------------------------------------
\* What an edit leaves for the next send
\* ------------------------------------------------------------------------
\* a step of handleEditMessage
EditStep == edit'.pc # edit.pc \/ edit'.n # edit.n

\* The store effects of handleEditMessage: it issues no chat request, adds
\* no row, removes only later messages of the edited message's conversation
\* and rewrites only the edited message.
EditFrame ==
  [][ EditStep =>
        /\ UNCHANGED <<apiVars, conversationsTbl, nextMsgId, nextConvId>>
        /\ DOMAIN messagesTbl' \subseteq DOMAIN messagesTbl
        /\ \A id \in DOMAIN messagesTbl \ DOMAIN messagesTbl' :
             /\ messagesTbl[id].conversationId = edit.convId
             /\ IsAfter(messagesTbl[id], edit.createdAt)
        /\ \A id \in DOMAIN messagesTbl' \ {edit'.msgId} :
             messagesTbl'[id] = messagesTbl[id] ]_vars

\* C15: handleEditMessage only truncates and rewrites; the generation starts
\* again with the next handleSendMessage of the window, and the history that
\* send passes to the chat request is the truncated message list of the
\* edited conversation followed by the new user message.  (Stated for an
\* edit and a send that no other handler overlaps.)
C15_NextSendUsesTruncatedHistory ==
  [][ \A i \in Sends :
        ( /\ sends[i].pc = "idle" /\ sends'[i].pc = "convWrite"
          /\ OthersQuiet(i)
          /\ edit.pc = "done" /\ edit.failed = "" /\ edit.alone
          /\ edit.mounted )
        => sends'[i].history = HistoryForApi(MessagesOf(edit.convId)) ]_vars

\* ------------------------------------------------------------------------
\* The model of a conversation
\* ------------------------------------------------------------------------
\* C16: when a conversation with stored model m is selected and the user
\* has then chosen a different model m' in the model selector, the chat
\* request of the next send in that conversation is issued with m' and m'
\* is stored as the conversation's model.
C16_NextSendUsesChosenModel ==
  \A i \in Sends :
    ( /\ sends[i].conversation # NULL
      /\ sends[i].seenModel # ""
      /\ sends[i].chosen # sends[i].seenModel
      /\ chats[i].pc # "idle" )
    => /\ sends[i].model = sends[i].chosen
       /\ sends[i].conversation \in DOMAIN convModel =>
            convModel[sends[i].conversation] = sends[i].chosen

\* ------------------------------------------------------------------------
\* OllamaApi: a request answered with a non-2xx status
\* ------------------------------------------------------------------------
HttpOps == {"request", "streamChat", "streamGenerate", "pullModel"}
HttpStatuses == {404, 500}

\* `HTTP error! status: ${response.status} ${response.statusText}`
HttpErrorText(status) ==
  IF status = 404 THEN "HTTP error! status: 404 Not Found"
  ELSE "HTTP error! status: 500 Internal Server Error"

\* What response.json() finds in the body: text that is not JSON, or the JSON
\* values null, a string, an object with or without a non-empty error and
\* with or without a status of its own.  A missing property is "" or 0.
ErrorBodies ==
  {[kind |-> k, error |-> "", status |-> 0] : k \in {"invalid", "null", "string"}}
    \cup {[kind |-> "object", error |-> e, status |-> st] :
            e \in {"", "model not found"}, st \in {0, 400}}

\* errorBody = await response.json(), or the default object when it rejects
JsonOrDefault(status, body) ==
  IF body.kind = "invalid"
  THEN [kind |-> "object", error |-> HttpErrorText(status), status |-> status]
  ELSE body

\* if (!errorBody.error) errorBody.error = ...; if (!errorBody.status)
\* errorBody.status = response.status; throw errorBody.  Reading a property
\* of null and, in the strict code of a class, creating one on a string
\* throw a TypeError instead.
PropertyTypeError ==
  [name |-> "TypeError", message |-> "Cannot access property 'error'",
   error |-> "", status |-> 0]
ErrorValue(status, data) ==
  IF data.kind \in {"null", "string"} THEN PropertyTypeError
  ELSE [name |-> "", message |-> "",
        error |-> IF data.error = "" THEN HttpErrorText(status) ELSE data.error,
        status |-> IF data.status = 0 THEN status ELSE data.status]

\* the response has arrived with !response.ok
HttpInit ==
  /\ hOp \in HttpOps /\ hStatus \in HttpStatuses /\ hBody \in ErrorBodies
  /\ hPc = "fetched"
  /\ hErrorData = NoErrorData /\ hThrown = NoThrow /\ hYielded = <<>>

\* await response.json()
HttpJson ==
  /\ hPc = "fetched"
  /\ hErrorData' = JsonOrDefault(hStatus, hBody)
  /\ hPc' = "json"
  /\ UNCHANGED <<hOp, hStatus, hBody, hThrown, hYielded, startVars, handleVars, mainVars,
                 decVars>>

\* the two tests and throw; request() has no catch around them
HttpThrow ==
  /\ hPc = "json"
  /\ hThrown' = ErrorValue(hStatus, hErrorData)
  /\ hPc' = IF hOp = "request" THEN "done" ELSE "catch"
  /\ UNCHANGED <<hOp, hStatus, hBody, hErrorData, hYielded, startVars, handleVars,
                 mainVars, decVars>>

\* catch (error) of a generator: return on an AbortError, else rethrow;
\* pullModel first yields { status: 'error', error: error.message ||
\* 'Unknown pull error' }, which is not decoded from the response
HttpCatch ==
  /\ hPc = "catch"
  /\ IF hThrown.name = "AbortError"
     THEN hThrown' = NoThrow /\ UNCHANGED hYielded
     ELSE /\ UNCHANGED hThrown
          /\ hYielded' =
               IF hOp = "pullModel"
               THEN Append(hYielded,
                           [status |-> "error",
                            error |-> IF hThrown.message # ""
                                      THEN hThrown.message
                                      ELSE "Unknown pull error",
                            decoded |-> FALSE])
               ELSE hYielded
  /\ hPc' = "done"
  /\ UNCHANGED <<hOp, hStatus, hBody, hErrorData, startVars, handleVars, mainVars, decVars>>

HttpNext ==
  \/ HttpJson
  \/ HttpThrow
  \/ HttpCatch

\* C19: an operation answered with a non-2xx status throws a value that
\* carries a non-empty error message and the HTTP status of the response,
\* whether or not the body is valid JSON, and a streaming operation has
\* yielded no decoded chunk when it throws.
C19_ErrorResponseThrowsMessageAndStatus ==
  hPc = "done" =>
    /\ hThrown # NoThrow
    /\ hThrown.error # "" \/ hThrown.message # ""
    /\ hThrown.status = hStatus
    /\ \A k \in DOMAIN hYielded : ~hYielded[k].decoded

\* ------------------------------------------------------------------------
\* App startup: checkConnection and checkConnectionAndFetchData
\* ------------------------------------------------------------------------
\* The probe of checkConnection has not been answered: the clock of
\* AbortSignal.timeout(3000) advances.
ProbeTickStep ==
  /\ startup.pc = "probe"
  /\ startup.elapsed < ProbeTimeoutMs
  /\ startup' = [startup EXCEPT !.elapsed = @ + ProbeTick]
  /\ UNCHANGED <<availableModels, ollamaConnected, connectionStatusMessage,
                 modelStatusMessage, httpVars, handleVars, mainVars, decVars>>

\* response.ok
Ok(status) == status >= 200 /\ status < 300

\* checkConnection: return res.ok, and false from the catch clause.
\* (CheckConnectionAnyResponse takes any response as a connection.)
CheckConnectionAnyResponse(outcome) == outcome.kind = "response"
CheckConnection(outcome) == outcome.kind = "response" /\ Ok(outcome.status)

\* connected = await ollamaApi.checkConnection(); setOllamaConnected(connected)
\* and the branch of checkConnectionAndFetchData up to its next await
AfterProbe(outcome) ==
  LET connected == CheckConnection(outcome)
  IN /\ ollamaConnected' = connected
     /\ IF connected
        THEN /\ connectionStatusMessage' = "Ollama connected."
             /\ modelStatusMessage' = "Fetching models..."
             /\ startup' = [startup EXCEPT !.pc = "listModels",
                                           !.probe = outcome,
                                           !.listModels = TRUE]
             /\ UNCHANGED availableModels
        ELSE /\ connectionStatusMessage' =
                  "Ollama disconnected. Ensure Ollama is running."
             /\ modelStatusMessage' = ""
             /\ availableModels' = <<>>
             /\ startup' = [startup EXCEPT !.pc = "done", !.probe = outcome]
     /\ UNCHANGED <<httpVars, handleVars, mainVars, decVars>>

\* fetch(`${this.baseUrl}/`) resolves before the signal aborts it
ProbeResponds(status) ==
  /\ startup.pc = "probe"
  /\ startup.elapsed < ProbeTimeoutMs
  /\ AfterProbe([kind |-> "response", status |-> status,
                 at |-> startup.elapsed])

\* fetch rejects: the server cannot be reached
ProbeNetworkError ==
  /\ startup.pc = "probe"
  /\ startup.elapsed < ProbeTimeoutMs
  /\ AfterProbe([kind |-> "networkError", status |-> 0,
                 at |-> startup.elapsed])

\* AbortSignal.timeout(3000) aborts the fetch, which rejects
ProbeTimesOut ==
  /\ startup.pc = "probe"
  /\ startup.elapsed >= ProbeTimeoutMs
  /\ AfterProbe([kind |-> "timeout", status |-> 0, at |-> startup.elapsed])

\* modelsResponse = await ollamaApi.listModels() resolves; loadConversations()
ListModelsReturns(fetchedModels) ==
  /\ startup.pc = "listModels"
  /\ availableModels' = fetchedModels
  /\ currentGlobalModel' =
       IF Len(fetchedModels) > 0 /\ currentGlobalModel = ""
       THEN fetchedModels[1] ELSE currentGlobalModel
  /\ modelStatusMessage' =
       IF Len(fetchedModels) > 0 THEN "model(s) loaded."
       ELSE "No local models found. Pull a model to start."
  /\ convLoad' = TRUE
  /\ startup' = [startup EXCEPT !.pc = "done"]
  /\ UNCHANGED <<clock, storeVars, selectedConversation, conversations,
                 winVars, apiVars, sends, edit, del, tx, gestures,
                 convModel, listedModel, selectedConvModel,
                 ollamaConnected, connectionStatusMessage, httpVars, handleVars, decVars>>

\* listModels() rejects with what request() throws: catch (error) {
\* setModelStatusMessage(`Error fetching models: ${error.error ||
\* error.message}`); setAvailableModels([]) }; loadConversations()
ListModelsThrows(status, body) ==
  /\ startup.pc = "listModels"
  /\ LET err == ErrorValue(status, JsonOrDefault(status, body))
     IN modelStatusMessage' = IF err.error # "" THEN err.error ELSE err.message
  /\ availableModels' = <<>>
  /\ convLoad' = TRUE
  /\ startup' = [startup EXCEPT !.pc = "done"]
  /\ UNCHANGED <<clock, storeVars, selectedConversation, conversations,
                 winVars, apiVars, sends, edit, del, tx, gestures, modelVars,
                 ollamaConnected, connectionStatusMessage, httpVars, handleVars, decVars>>

StartupNext ==
  \/ ProbeTickStep
  \/ \E status \in ProbeStatuses : ProbeResponds(status)
  \/ ProbeNetworkError
  \/ ProbeTimesOut
  \/ \E fetchedModels \in {<<>>, AvailableModels} : ListModelsReturns(fetchedModels)
  \/ \E status \in HttpStatuses, body \in ErrorBodies : ListModelsThrows(status, body)
  \/ LoadConversations

\* C20: checkConnection returns true exactly when the GET / probe was
\* answered with an ok status before the 3-second limit, and false on a
\* failure or a timeout; when it has returned false the app shows the
\* disconnected status, has issued no listModels request, and the startup
\* routine is over: nothing runs it again.
C20_ProbeDecidesStartup ==
  /\ [](startup.pc \in {"listModels", "done"} =>
          /\ ollamaConnected =
               ( /\ startup.probe.kind = "response"
                 /\ startup.probe.status \in 200..299
                 /\ startup.probe.at < ProbeTimeoutMs )
          /\ ~ollamaConnected =>
               /\ startup.pc = "done"
               /\ connectionStatusMessage =
                    "Ollama disconnected. Ensure Ollama is running."
               /\ ~startup.listModels
               /\ ~convLoad)
  /\ [][startup.pc = "done" => startup' = startup]_vars

\* the probe was cut off by its timeout and the app shows it is disconnected
C20_Witness ==
  /\ startup.pc = "done" /\ ~ollamaConnected
  /\ startup.probe.kind = "timeout"

\* ------------------------------------------------------------------------
\* Properties of the conversation title
\* ------------------------------------------------------------------------
\* The positions of the spaces of a text, and the text before its fifth
\* space: its first five space-separated words, spaces between them kept.
SpacePositions(s) == {k \in 1..Len(s) : s[k] = " "}
FifthSpace(s) ==
  CHOOSE k \in SpacePositions(s) :
    Cardinality({j \in SpacePositions(s) : j <= k}) = TitleWords
FirstFiveWords(s) ==
  IF Cardinality(SpacePositions(s)) >= TitleWords
  THEN SubSeq(s, 1, FifthSpace(s) - 1) \o <<Ellipsis>>
  ELSE s

\* No step changes the title of a stored conversation except the
\* generateTitle of the send that added it, which replaces the title the
\* row was added with.
TitleFrame ==
  [][\A c \in DOMAIN title \cap DOMAIN title' :
       title'[c] # title[c] =>
         /\ title[c] = PlaceholderTitle
         /\ \E i \in Sends : /\ sends[i].pc = "title" /\ sends[i].convId = c
                             /\ sends[i].conversation = NULL
                             /\ sends'[i].pc = "getConv"]_vars

StoredPairs(conv) ==
  IF conv = NULL THEN <<>>
  ELSE [k \in DOMAIN MessagesOf(conv) |->
          <<MessagesOf(conv)[k].role, MessagesOf(conv)[k].content>>]

\* C23: the history a send builds for its chat request is, as role/content
\* pairs in ascending createdAt order, exactly the messages stored for the
\* conversation the send writes to when the send begins (none when the send
\* creates the conversation), followed by the new user message.
C23_RequestCarriesStoredHistory ==
  [][\A i \in Sends :
       (sends[i].pc = "idle" /\ sends'[i].pc = "convWrite") =>
         sends'[i].history =
           StoredPairs(selectedConversation) \o << <<"user", sends'[i].text>> >>]_vars

\* ------------------------------------------------------------------------
\* The order of a send's store writes
\* ------------------------------------------------------------------------
\* C24: within one send the store writes are issued one after the other in
\* the order conversation create-or-update, user message add, placeholder
\* add, final-content update: the conversation is written before the send
\* has added a row and before its request is open; the user message is added
\* once the conversation is written, the placeholder once the user message
\* is; the chat request is open only when the placeholder is stored, and the
\* final update is written only when the stream of the request has ended.
C24_StoreWritesInOrder ==
  /\ [](\A i \in Sends :
          /\ chats[i].pc # "idle" => sends[i].assistantMsgId # NULL
          /\ sends[i].assistantMsgId # NULL => sends[i].convId # NULL
          /\ sends[i].wrote => chats[i].pc = "closed")
  /\ [][\A i \in Sends :
          LET s == sends[i]
              t == sends'[i]
              added == DOMAIN messagesTbl' \ DOMAIN messagesTbl
          IN /\ (s.convId = NULL /\ t.convId # NULL) =>
                  /\ s.pc = "convWrite" /\ added = {}
                  /\ chats[i].pc = "idle" /\ s.assistantMsgId = NULL
             /\ (s.pc = "addUser" /\ t.pc # "addUser") =>
                  /\ s.convId # NULL /\ s.assistantMsgId = NULL
                  /\ chats'[i].pc = "idle"
                  /\ \E id \in added : /\ messagesTbl'[id].role = "user"
                                       /\ messagesTbl'[id].conversationId = s.convId
             /\ (s.assistantMsgId = NULL /\ t.assistantMsgId # NULL) =>
                  /\ s.pc = "addPlaceholder" /\ chats[i].pc = "idle"
                  /\ added = {t.assistantMsgId}
                  /\ messagesTbl'[t.assistantMsgId].role = "assistant"
             /\ (chats[i].pc = "idle" /\ chats'[i].pc # "idle") =>
                  t.assistantMsgId \in DOMAIN messagesTbl'
             /\ (~s.wrote /\ t.wrote) =>
                  /\ s.pc = "final" /\ chats[i].pc = "closed"
                  /\ s.assistantMsgId # NULL]_vars

\* a send has written all four: its request completed and the final
\* content replaced the placeholder
C24_Witness ==
  \E i \in Sends :
    /\ sends[i].wrote /\ sends[i].pc = "done"
    /\ chats[i].result = "completed"
    /\ sends[i].assistantMsgId \in DOMAIN messagesTbl
    /\ messagesTbl[sends[i].assistantMsgId].content = sends[i].acc
    /\ sends[i].acc # <<>>

\* ------------------------------------------------------------------------
\* A streaming call whose controller is aborted while it decodes
\* ------------------------------------------------------------------------
\* The generator runs from one suspension to the next: it is suspended at
\* await reader.read() (dStatus = "reading") or at a yield of the line loop
\* (dStatus = "yielded", dLines holding the lines not yet visited).

RECURSIVE Advance(_, _, _)
\* for (const line of lines) { ... } from the given lines on, up to the
\* next yield, the end of the loop, a throw or a return
Advance(op, lines, ys) ==
  IF lines = <<>> THEN [yielded |-> ys, status |-> "reading", rest |-> <<>>]
  ELSE LET r == ProcessLines(op, <<Head(lines)>>, ys) IN
       IF r.status # "reading"
       THEN [yielded |-> r.yielded, status |-> r.status, rest |-> <<>>]
       ELSE IF r.yielded # ys
       THEN [yielded |-> r.yielded, status |-> "yielded", rest |-> Tail(lines)]
       ELSE Advance(op, Tail(lines), ys)

\* pullModel's catch: yield { status: 'error', error: error.message || 'Unknown pull error' }
PullErrorStatus == [text |-> <<>>, status |-> "error", error |-> "Unknown pull error"]

\* controller.abort(reason) runs (a stop method, or a new call of the same
\* operation) while the generator is suspended
AbortSignalled ==
  /\ dStatus \in {"reading", "yielded"}
  /\ ~dAbort.signalled
  /\ dAbort' = [signalled |-> TRUE, yielded |-> Len(dYielded)]
  /\ UNCHANGED <<dOp, dBody, dSplit, dChunks, dBuffer, dYielded, dStatus,
                 dLines, mainVars, netVars>>

\* reader.read() resolves with { done: false, value }: the line loop starts
ReadResolves ==
  /\ dStatus = "reading" /\ ~dAbort.signalled /\ dChunks # <<>>
  /\ LET lines == SplitNL(dBuffer \o Head(dChunks))
         r == Advance(dOp, CompleteLines(lines), dYielded)
     IN /\ dBuffer' = CarryOver(lines)
        /\ dYielded' = r.yielded
        /\ dStatus' = r.status
        /\ dLines' = r.rest
  /\ dChunks' = Tail(dChunks)
  /\ UNCHANGED <<dOp, dBody, dSplit, dAbort, mainVars, netVars>>

\* the consumer calls next(): the line loop goes on where it yielded; the
\* signal is not looked at
Resume ==
  /\ dStatus = "yielded"
  /\ LET r == Advance(dOp, dLines, dYielded)
     IN /\ dYielded' = r.yielded
        /\ dStatus' = r.status
        /\ dLines' = r.rest
  /\ UNCHANGED <<dOp, dBody, dSplit, dChunks, dBuffer, dAbort, mainVars, netVars>>

\* reader.read() rejects with the abort reason; the catch clause returns on
\* an AbortError and rethrows anything else, pullModel yielding an error
\* status first
ReadRejects ==
  /\ dStatus = "reading" /\ dAbort.signalled
  /\ IF StreamChatCatch(AbortRejection(TRUE)) = "return"
     THEN dStatus' = "returned" /\ UNCHANGED dYielded
     ELSE /\ dStatus' = "thrown"
          /\ dYielded' = IF dOp = "pull" THEN Append(dYielded, PullErrorStatus)
                         ELSE dYielded
  /\ UNCHANGED <<dOp, dBody, dSplit, dChunks, dBuffer, dLines, dAbort,
                 mainVars, netVars>>

\* reader.read() resolves with { done: true }
ReadEnds == ~dAbort.signalled /\ ReadDone(dOp)

AbortNext ==
  \/ AbortSignalled
  \/ ReadResolves
  \/ Resume
  \/ ReadRejects
  \/ ReadEnds

\* The objects of a sequence that were decoded from the response.
Decoded(ys) == SelectSeq(ys, LAMBDA v : v.text # <<>>)

\* C25: once controller.abort() has run, the generator yields no further
\* object decoded from the response: not from a later read, and not from the
\* lines of the chunk it was working through when the abort was signalled.
C25_NothingDecodedAfterAbort ==
  dAbort.signalled =>
    Len(Decoded(dYielded)) = Len(Decoded(SubSeq(dYielded, 1, dAbort.yielded)))

\* The part that holds: after the abort nothing is yielded from a later
\* read, only from the lines already split off the chunk being worked
\* through.
AbortStopsReading ==
  [][dAbort.signalled => dChunks' = dChunks /\ dBuffer' = dBuffer]_vars

\* ------------------------------------------------------------------------
\* OllamaApi: the handles of streamGenerate and pullModel
\* ------------------------------------------------------------------------
\* if (this.currentGenerateController) this.currentGenerateController.abort(...);
\* this.currentGenerateController = new AbortController(); then fetch(...)
\* with its signal; pullModel does the same with currentPullController
OtherStart(category, r) ==
  /\ requests[category][r].pc = "idle"
  /\ r > 1 => requests[category][r - 1].pc # "idle"
  /\ requests' = [requests EXCEPT ![category] = [q \in OtherCalls |->
       IF q = r THEN [pc |-> "fetch", aborted |-> FALSE, result |-> ""]
       ELSE IF q = currentController[category] THEN [@[q] EXCEPT !.aborted = TRUE]
       ELSE @[q]]]
  /\ currentController' = [currentController EXCEPT ![category] = r]
  /\ UNCHANGED <<mainVars, decVars, startVars, httpVars>>

\* the generator of call r ends, by completion, return or throw (which of
\* them is not recorded): finally { this.currentGenerateController = null; }, or currentPullController
OtherFinally(category, r) ==
  /\ requests[category][r].pc = "fetch"
  /\ requests' = [requests EXCEPT ![category][r] = [@ EXCEPT !.pc = "closed"]]
  /\ currentController' = [currentController EXCEPT ![category] = NULL]
  /\ UNCHANGED <<mainVars, decVars, startVars, httpVars>>

\* A stop method that clears the handle of every category.
OtherStopClearsAll(category) ==
  /\ currentController[category] # NULL
  /\ requests' = [requests EXCEPT ![category][currentController[category]] =
                    [@ EXCEPT !.aborted = TRUE]]
  /\ currentController' = [c \in OtherCategories |-> NULL]
  /\ currentChatController' = NULL
  /\ UNCHANGED <<clock, storeVars, appVars, winVars, chats, sends, edit, del,
                 tx, gestures, modelVars, decVars, startVars, httpVars>>

\* stopStreamingGenerate(), stopPullingModel()
OtherStop(category) ==
  /\ currentController[category] # NULL
  /\ requests' = [requests EXCEPT ![category][currentController[category]] =
                    [@ EXCEPT !.aborted = TRUE]]
  /\ currentController' = [currentController EXCEPT ![category] = NULL]
  /\ UNCHANGED <<mainVars, decVars, startVars, httpVars>>

StreamGenerate == \E r \in OtherCalls : OtherStart("generate", r)
StreamGenerateFinally == \E r \in OtherCalls : OtherFinally("generate", r)
StopStreamingGenerate == OtherStop("generate")
PullModel == \E r \in OtherCalls : OtherStart("pull", r)
PullModelFinally == \E r \in OtherCalls : OtherFinally("pull", r)
StopPullingModel == OtherStop("pull")

HandlesNext ==
  \/ \E r \in Calls : ApiStreamChat(r)
  \/ \E r \in Calls : ApiFetch(r)
  \/ \E r \in Calls : ApiErrorBody(r)
  \/ \E r \in Calls : ApiRead(r)
  \/ StopStreamingChat
  \/ StreamGenerate
  \/ StreamGenerateFinally
  \/ StopStreamingGenerate
  \/ PullModel
  \/ PullModelFinally
  \/ StopPullingModel

\* The handle of a category and which of its calls have been aborted; the
\* whole state of its calls.
Categories == {"chat"} \cup OtherCategories
HandleOf(category) ==
  IF category = "chat"
  THEN <<currentChatController, [r \in Calls |-> chats[r].aborted]>>
  ELSE <<currentController[category],
         [r \in OtherCalls |-> requests[category][r].aborted]>>
CallsOf(category) ==
  IF category = "chat" THEN <<currentChatController, chats>>
  ELSE <<currentController[category], requests[category]>>

\* C26: the chat, generate and pull categories each hold their own handle:
\* a step in which a request of one category starts, is stopped or ends
\* leaves the registered handle of every other category as it was and aborts
\* no call of another category.
C26_HandlesAreSeparate ==
  [][\A c \in Categories :
       CallsOf(c)' # CallsOf(c) =>
         \A d \in Categories \ {c} : HandleOf(d)' = HandleOf(d)]_vars

\* a request of each category is registered and un-aborted, after a chat
\* request was superseded, a generate request stopped and a pull request
\* ended
C26_Witness ==
  /\ currentChatController = 2 /\ chats[1].aborted /\ ~chats[2].aborted
  /\ currentController["generate"] = 2 /\ ~requests["generate"][2].aborted
  /\ requests["generate"][1].aborted
  /\ currentController["pull"] = 2 /\ ~requests["pull"][2].aborted
  /\ requests["pull"][1].pc = "closed" /\ ~requests["pull"][1].aborted

\* ------------------------------------------------------------------------
\* The conversation a new chat writes to
\* ------------------------------------------------------------------------
\* C28: in a new chat the first send creates exactly one conversation, and
\* a second send from that same chat (the two sends being the only gestures
\* so far: no conversation was selected and New Chat was not pressed) writes
\* to that same conversation and creates no further one.
C28_NewChatKeepsItsConversation ==
  /\ (gestures = 1 /\ sends[1].conversation = NULL /\ sends[1].convId # NULL) =>
       nextConvId = 2 /\ sends[1].convId = 1
  /\ (gestures = 2 /\ sends[1].conversation = NULL /\ sends[2].convId # NULL) =>
       /\ sends[2].convId = sends[1].convId
       /\ nextConvId = 2

\* ------------------------------------------------------------------------
\* What is displayed when a send has completed
\* ------------------------------------------------------------------------
\* C29: at the step that completes a send normally (its final update was
\* written, its window is still mounted, no other handler wrote meanwhile)
\* the displayed message list becomes the messages stored for the
\* conversation the send wrote to, in ascending createdAt order, whether
\* the conversation existed or the send created it.
C29_DisplayedEqualsStored ==
  [][\A i \in Sends :
       (sends[i].pc # "done" /\ sends'[i].pc = "done" /\ sends'[i].wrote
          /\ sends'[i].mounted /\ SendUndisturbed(i)') =>
         messages' = SortBy(messagesTbl', {id \in DOMAIN messagesTbl' :
                        messagesTbl'[id].conversationId = sends'[i].convId})]_vars

\* The case that holds: the send wrote to the conversation of its
\* conversation prop.
DisplayedEqualsStoredExisting ==
  [][\A i \in Sends :
       (sends[i].pc # "done" /\ sends'[i].pc = "done" /\ sends'[i].wrote
          /\ sends'[i].mounted /\ SendUndisturbed(i)'
          /\ sends'[i].conversation # NULL) =>
         messages' = SortBy(messagesTbl', {id \in DOMAIN messagesTbl' :
                        messagesTbl'[id].conversationId = sends'[i].convId})]_vars

\* C30: on every application start the conversations of the local store
\* are eventually loaded into the sidebar list, whether the probe of
\* checkConnection succeeds or fails.
C30_ConversationsEventuallyListed ==
  <>(startup.pc = "done" /\ ~convLoad /\ conversations = conversationsTbl)

\* The case that holds: when the probe succeeds they are loaded, whether
\* listModels() then returns or throws.
ListedWhenConnected ==
  <>(startup.pc = "done" /\ ~ollamaConnected)
    \/ <>(startup.pc = "done" /\ ~convLoad /\ conversations = conversationsTbl)

\* ------------------------------------------------------------------------
\* Specifications
\* ------------------------------------------------------------------------
Next ==
  \/ HandleSendMessage
  \/ HandleEditMessage
  \/ HandleDeleteConversation
  \/ LoadConversations
  \/ \E c \in conversations : HandleSelectConversation(c)
  \/ HandleNewConversation
  \/ LoadMessages

\* The application, from an empty store.
Init == MainInit /\ DecIdle
Spec == Init /\ [][Next]_vars

\* OllamaApi.streamChat and stopStreamingChat under arbitrary consumers.
SpecApi == Init /\ [][ApiNext]_vars

\* One streaming call decoding one response body.
InitDecode == DecInit /\ MainInit
SpecDecode == InitDecode /\ [][DecNext]_vars

\* handleEditMessage called with any message id, in a window showing a
\* stored conversation or a new chat; its store operations may fail.
EditNext ==
  \/ \E messageId \in 1..(MaxStored + 1) : EditCall(messageId)
  \/ EditQuery
  \/ EditBulkDelete
  \/ EditUpdate
  \/ EditReload
  \/ EditFails

InitEdit ==
  /\ \E tbl \in StoredMessages :
       /\ messagesTbl = tbl
       /\ nextMsgId = Len(tbl) + 1
       /\ clock = tbl[Len(tbl)].createdAt
  /\ conversationsTbl = {StoredConversation}
  /\ updatedAt = (StoredConversation :> 0)
  /\ title = (StoredConversation :> GenerateTitle(UserText))
  /\ nextConvId = StoredConversation + 1
  /\ selectedConversation \in {NULL, StoredConversation}
  /\ conversations = conversationsTbl /\ convLoad = FALSE
  /\ messages = MessagesOf(selectedConversation)
  /\ isLoading = FALSE /\ error = ""
  /\ currentAssistantMessageId = NULL /\ msgLoad = FALSE
  /\ currentChatController = NULL
  /\ chats = [r \in Calls |-> IdleChat]
  /\ sends = [i \in Sends |-> IdleSend]
  /\ edit = IdleEdit /\ del = IdleDel /\ tx = NoTx
  /\ gestures = 0
  /\ convModel = (StoredConversation :> AvailableModels[1])
  /\ listedModel = convModel
  /\ selectedConvModel =
       IF selectedConversation = NULL THEN "" ELSE AvailableModels[1]
  /\ currentGlobalModel = AvailableModels[1]
  /\ DecIdle /\ StartupDone /\ HttpIdle /\ HandlesIdle
SpecEdit == InitEdit /\ [][EditNext]_vars

\* One send, conversation selection and the model selector, from a store
\* holding one conversation.
ModelNext ==
  \/ \E k \in DOMAIN AvailableModels : OnSelectModel(AvailableModels[k])
  \/ \E c \in conversations : HandleSelectConversation(c)
  \/ HandleNewConversation
  \/ LoadMessages
  \/ LoadConversations
  \/ SendStart(1)
  \/ SendConvWrite(1)
  \/ SendTitle(1)
  \/ SendGetConv(1)
  \/ SendAddUser(1)
  \/ SendAddPlaceholder(1)
  \/ SendFetch(1)
  \/ SendErrorBody(1)
  \/ SendRead(1)
  \/ SendFinal(1)
  \/ SendReload(1)

InitModel ==
  /\ \E tbl \in StoredExchange :
       /\ messagesTbl = tbl
       /\ nextMsgId = Len(tbl) + 1
       /\ clock = tbl[Len(tbl)].createdAt
  /\ conversationsTbl = {StoredConversation}
  /\ updatedAt = (StoredConversation :> 0)
  /\ title = (StoredConversation :> GenerateTitle(UserText))
  /\ nextConvId = StoredConversation + 1
  /\ \E k \in DOMAIN AvailableModels :
       convModel = (StoredConversation :> AvailableModels[k])
  /\ listedModel = convModel
  /\ selectedConversation \in {NULL, StoredConversation}
  /\ selectedConvModel =
       IF selectedConversation = NULL THEN ""
       ELSE convModel[StoredConversation]
  /\ \E k \in DOMAIN AvailableModels :
       currentGlobalModel =
         IF selectedConversation = NULL THEN AvailableModels[k]
         ELSE convModel[StoredConversation]
  /\ conversations = conversationsTbl /\ convLoad = FALSE
  /\ messages = MessagesOf(selectedConversation)
  /\ isLoading = FALSE /\ error = ""
  /\ currentAssistantMessageId = NULL /\ msgLoad = FALSE
  /\ currentChatController = NULL
  /\ chats = [r \in Calls |-> IdleChat]
  /\ sends = [i \in Sends |-> IdleSend]
  /\ edit = IdleEdit /\ del = IdleDel /\ tx = NoTx
  /\ gestures = 0
  /\ DecIdle /\ StartupDone /\ HttpIdle /\ HandlesIdle
SpecModel == InitModel /\ [][ModelNext]_vars

\* One operation of OllamaApi answered with a non-2xx status.
InitHttp == HttpInit /\ MainInitApp /\ StartupDone /\ DecIdle /\ HandlesIdle
SpecHttp == InitHttp /\ [][HttpNext]_vars

\* The application starts on a store left by earlier sessions.
InitStartup ==
  /\ \E n \in 0..MaxStoredConvs :
       /\ conversationsTbl = 1..n
       /\ updatedAt = [c \in 1..n |-> 0]
       /\ title = [c \in 1..n |-> GenerateTitle(UserText)]
       /\ convModel = [c \in 1..n |-> AvailableModels[1]]
       /\ messagesTbl = [id \in 1..n |->
                           [conversationId |-> id, role |-> "user",
                            content |-> UserText, createdAt |-> 0]]
       /\ nextConvId = n + 1 /\ nextMsgId = n + 1
  /\ clock = 0
  /\ selectedConversation = NULL /\ conversations = {} /\ convLoad = FALSE
  /\ messages = <<>> /\ isLoading = FALSE /\ error = ""
  /\ currentAssistantMessageId = NULL /\ msgLoad = FALSE
  /\ currentChatController = NULL
  /\ chats = [r \in Calls |-> IdleChat]
  /\ sends = [i \in Sends |-> IdleSend]
  /\ edit = IdleEdit /\ del = IdleDel /\ tx = NoTx
  /\ gestures = 0
  /\ listedModel = <<>> /\ selectedConvModel = "" /\ currentGlobalModel = ""
  /\ availableModels = <<>>
  /\ ollamaConnected = FALSE
  /\ connectionStatusMessage = "Connecting to Ollama..."
  /\ modelStatusMessage = ""
  /\ startup = [pc |-> "probe", elapsed |-> 0, listModels |-> FALSE,
                probe |-> NoProbe]
  /\ HttpIdle /\ DecIdle /\ HandlesIdle
SpecStartup == InitStartup /\ [][StartupNext]_vars

\* The same, every pending promise and timer of the start being settled in
\* the end: the probe is answered, fails or is aborted by its 3-second
\* signal, listModels() settles, and a pending loadConversations() resolves.
SpecStartupLive == SpecStartup /\ WF_vars(StartupNext)

\* A new chat in which handleSendMessage has just been called with a
\* message typed by the user: the title written for it.
TitleInputs ==
  {s \in UNION {[1..n -> {"w", " "}] : n \in 1..MaxTitleChars} : Trim(s) # <<>>}

InitTitle ==
  /\ clock = 0
  /\ conversationsTbl = {} /\ messagesTbl = <<>>
  /\ updatedAt = <<>> /\ title = <<>>
  /\ nextConvId = 1 /\ nextMsgId = 1
  /\ selectedConversation = NULL /\ conversations = {} /\ convLoad = FALSE
  /\ messages = <<>> /\ isLoading = TRUE /\ error = ""
  /\ currentAssistantMessageId = NULL /\ msgLoad = FALSE
  /\ currentChatController = NULL
  /\ chats = [r \in Calls |-> IdleChat]
  /\ \E inputMessage \in TitleInputs :
       sends = [i \in Sends |->
                  IF i = 1
                  THEN [IdleSend EXCEPT !.pc = "convWrite", !.mounted = TRUE,
                                        !.text = Trim(inputMessage),
                                        !.quiet = TRUE,
                                        !.stamp = <<1, 0, 0>>,
                                        !.model = AvailableModels[1],
                                        !.chosen = AvailableModels[1],
                                        !.history = << <<"user", Trim(inputMessage)>> >>]
                  ELSE IdleSend]
  /\ edit = IdleEdit /\ del = IdleDel /\ tx = NoTx
  /\ gestures = 1
  /\ convModel = <<>> /\ listedModel = <<>> /\ selectedConvModel = ""
  /\ currentGlobalModel = AvailableModels[1]
  /\ StartupDone /\ HttpIdle /\ DecIdle /\ HandlesIdle

TitleNext ==
  \/ SendConvWrite(1)
  \/ SendTitle(1)
  \/ SendGetConv(1)
  \/ SendAddUser(1)
  \/ LoadConversations

SpecTitle == InitTitle /\ [][TitleNext]_vars

\* One streaming call decoding one response body, its consumer driving it
\* chunk by chunk, with an abort of its controller at any suspension.
SpecAbort == InitDecode /\ [][AbortNext]_vars

\* The three request categories of OllamaApi under arbitrary consumers.
SpecHandles == Init /\ [][HandlesNext]_vars

====
